---------------------------- MODULE Spec2Model ----------------------------
(***************************************************************************)
(* Model of the optimized Twitter poller (src/lambdas/poller): the         *)
(* checkpoint manager over its DynamoDB record, the rate limit manager,    *)
(* the error handler and the pagination / batch orchestrator.              *)
(*                                                                         *)
(* Strings are sequences of one-character strings, so that int() and       *)
(* str() are computed and a numeric comparison differs from a lexical one. *)
(***************************************************************************)
EXTENDS Integers, Sequences, FiniteSets, TLC

(***************************************************************************)
(* Bounds of the model.                                                    *)
(***************************************************************************)
\* _update_checkpoint calls one invocation makes in the store protocol
MaxAdvances == 2
\* store requests that fail with a ClientError other than the conditional check
MaxStoreFaults == 1

\* the two overlapping invocations of the store protocol
Invs == {1, 2}
\* fast upstream calls of the followed invocation before a call takes the whole budget
MaxFastCalls == 2
\* milliseconds a fast upstream call takes
FastCallMillis == 500
\* seconds a slow upstream call takes
SlowCallSeconds == 420
\* upstream calls of the followed invocation that raise
MaxFetchFailures == 2
\* lambda invocations of the followed invocation that raise
MaxDispatchFailures == 1
\* upstream calls that raise in an invocation whose upstream keeps failing
MaxStormFailures == 7
\* upstream calls the model follows in one invocation
CallCap == 12
\* seconds of an invocation the model follows
ClockCap == 900
\* the newest tweet id of a full-page upstream
BulkTop == 9000

(***************************************************************************)
(* Decimal strings: int(s) and str(n).                                     *)
(***************************************************************************)
DigitChars == <<"0", "1", "2", "3", "4", "5", "6", "7", "8", "9">>

IsDigit(c) == \E d \in 1..10 : DigitChars[d] = c

DigitVal(c) == (CHOOSE d \in 1..10 : DigitChars[d] = c) - 1

RECURSIVE DigitsValue(_)
DigitsValue(s) ==
    IF s = <<>> THEN 0
    ELSE DigitsValue(SubSeq(s, 1, Len(s) - 1)) * 10 + DigitVal(s[Len(s)])

AllDigits(s) == Len(s) > 0 /\ \A k \in 1..Len(s) : IsDigit(s[k])

\* s.strip(): int() ignores blanks around the number
RECURSIVE Strip(_)
Strip(s) ==
    IF s = <<>> THEN s
    ELSE IF s[1] = " " THEN Strip(Tail(s))
    ELSE IF s[Len(s)] = " " THEN Strip(SubSeq(s, 1, Len(s) - 1))
    ELSE s

Negative(s) == s # <<>> /\ s[1] = "-"

Unsigned(s) == IF s # <<>> /\ s[1] \in {"+", "-"} THEN Tail(s) ELSE s

\* digits, with single underscores allowed between two of them
Grouped(b) ==
    /\ Len(b) > 0
    /\ \A k \in 1..Len(b) : IsDigit(b[k]) \/ b[k] = "_"
    /\ b[1] # "_"
    /\ b[Len(b)] # "_"
    /\ \A k \in 1..(Len(b) - 1) : ~(b[k] = "_" /\ b[k + 1] = "_")

DigitsOf(s) == SelectSeq(Unsigned(Strip(s)), IsDigit)

\* int(s) does not raise ValueError
Parses(s) == Grouped(Unsigned(Strip(s)))

\* int(s) > 0, for any number of digits (a Python int has no width)
IsPositive(s) ==
    /\ Parses(s)
    /\ ~Negative(Strip(s))
    /\ \E k \in 1..Len(DigitsOf(s)) : DigitsOf(s)[k] # "0"

\* int(s): blanks, an optional sign, digits; anything else raises ValueError
\* (ok = FALSE).
ParseInt(s) ==
    IF Parses(s)
    THEN [ok |-> TRUE,
          val |-> IF Negative(Strip(s)) THEN 0 - DigitsValue(DigitsOf(s))
                  ELSE DigitsValue(DigitsOf(s))]
    ELSE [ok |-> FALSE, val |-> 0]

RECURSIVE NatStr(_)
NatStr(n) ==
    IF n < 10 THEN <<DigitChars[n + 1]>>
    ELSE Append(NatStr(n \div 10), DigitChars[(n % 10) + 1])

\* str(n)
Str(n) == IF n < 0 THEN <<"-">> \o NatStr(0 - n) ELSE NatStr(n)

\* s < t in the order of Python strings (code points: " ", "+", "-", the
\* digits, "_", the letters)
CharRank(c) ==
    IF c = " " THEN 0
    ELSE IF c = "+" THEN 1
    ELSE IF c = "-" THEN 2
    ELSE IF IsDigit(c) THEN DigitVal(c) + 3
    ELSE IF c = "_" THEN 13
    ELSE 14

RECURSIVE LexLess(_, _)
LexLess(s, t) ==
    IF t = <<>> THEN FALSE
    ELSE IF s = <<>> THEN TRUE
    ELSE IF CharRank(s[1]) # CharRank(t[1]) THEN CharRank(s[1]) < CharRank(t[1])
    ELSE LexLess(Tail(s), Tail(t))

Max2(a, b) == IF a >= b THEN a ELSE b

\* Optional[str]
NoneStr == [some |-> FALSE, v |-> <<>>]
Some(s) == [some |-> TRUE, v |-> s]
\* Python truthiness of an Optional[str]: None and "" are false
Truthy(o) == o.some /\ o.v # <<>>

(***************************************************************************)
(* The checkpoint record of the DynamoDB table (key 'checkpoint').         *)
(***************************************************************************)
NoRecord == [present |-> FALSE, since_id |-> <<>>, has_num |-> FALSE, since_id_num |-> 0]

\* the item CheckpointManager.update_checkpoint_atomic puts
NewRecord(since_id) ==
    [present |-> TRUE, since_id |-> since_id, has_num |-> TRUE,
     since_id_num |-> ParseInt(since_id).val]

\* ConditionExpression of update_checkpoint_atomic, without a condition
CondUnconditional(rec, since_id) == TRUE

\* ConditionExpression of update_checkpoint_atomic, lexical variant
CondLexical(rec, since_id) ==
    \/ ~rec.present
    \/ rec.present /\ LexLess(rec.since_id, since_id)

\* ConditionExpression of update_checkpoint_atomic:
\*   Or(Attr('id').not_exists(), Attr('since_id_num').lt(since_id_int))
\* A comparison with an attribute the item lacks is false.
AdvanceCondition(rec, since_id) ==
    \/ ~rec.present
    \/ rec.present /\ rec.has_num /\ rec.since_id_num < ParseInt(since_id).val

\* get_last_checkpoint on a successful get_item
ReadCheckpoint(rec) == IF rec.present THEN Some(rec.since_id) ELSE NoneStr

\* validate_checkpoint that rejects a length outside 10..25
ValidateUsualLength(since_id) ==
    /\ since_id # <<>>
    /\ Parses(since_id)
    /\ IsPositive(since_id)
    /\ Len(since_id) >= 10
    /\ Len(since_id) <= 25

\* validate_checkpoint
validate_checkpoint(since_id) ==
    /\ since_id # <<>>
    /\ Parses(since_id)
    /\ IsPositive(since_id)

\* handle_checkpoint_conflict that compares the two strings
ConflictLexical(attempted_id, current_id) ==
    IF ~Truthy(current_id) THEN attempted_id
    ELSE IF Parses(attempted_id) /\ Parses(current_id.v)
         THEN IF LexLess(current_id.v, attempted_id) THEN attempted_id ELSE current_id.v
         ELSE current_id.v

\* handle_checkpoint_conflict(attempted_id, current_id); int() of either
\* raising ValueError gives current_id
handle_checkpoint_conflict(attempted_id, current_id) ==
    IF ~Truthy(current_id) THEN attempted_id
    ELSE IF Parses(attempted_id) /\ Parses(current_id.v)
         THEN IF ParseInt(attempted_id).val > ParseInt(current_id.v).val
              THEN attempted_id
              ELSE current_id.v
         ELSE current_id.v


(***************************************************************************)
(* Time: the clock counts milliseconds; int(time.time()) is whole seconds. *)
(***************************************************************************)
Sec(n) == n * 1000

IntTime(t) == t \div 1000

Min2(a, b) == IF a <= b THEN a ELSE b

(***************************************************************************)
(* RateLimitManager and RateLimitStatus.                                   *)
(***************************************************************************)
\* current_status = None
NoStatus ==
    [set |-> FALSE, remaining_requests |-> 0, reset_time |-> 0, limit |-> 0,
     should_wait |-> FALSE, wait_seconds |-> 0]

\* last_request_time = None
NoTime == [set |-> FALSE, t |-> 0]

\* RateLimitStatus.is_exhausted
is_exhausted(st) == st.remaining_requests <= 0

\* the RateLimitStatus of the except clause of parse_rate_limit_headers
Fallback(t) ==
    [set |-> TRUE, remaining_requests |-> 1, reset_time |-> IntTime(t) + 900, limit |-> 1,
     should_wait |-> FALSE, wait_seconds |-> 0]

\* parse_rate_limit_headers with utilization > 1.0 - PROACTIVE_THRESHOLD
ParseStrictThreshold(h, t) ==
    LET proactive == h.limit > 0 /\ (h.limit - h.remaining) * 10 > 8 * h.limit
    IN  [set |-> TRUE,
         remaining_requests |-> h.remaining,
         reset_time |-> h.reset,
         limit |-> h.limit,
         should_wait |-> proactive,
         wait_seconds |-> IF proactive THEN Max2(0, h.reset - IntTime(t)) ELSE 0]

\* parse_rate_limit_headers on headers that hold three integers, at time t:
\* utilization >= 1.0 - PROACTIVE_THRESHOLD, computed without rounding
parse_rate_limit_headers(h, t) ==
    LET proactive == h.limit > 0 /\ (h.limit - h.remaining) * 10 >= 8 * h.limit
    IN  [set |-> TRUE,
         remaining_requests |-> h.remaining,
         reset_time |-> h.reset,
         limit |-> h.limit,
         should_wait |-> proactive,
         wait_seconds |-> IF proactive THEN Max2(0, h.reset - IntTime(t)) ELSE 0]

\* calculate_wait_time, in seconds
calculate_wait_time(remaining_requests, reset_time, t) ==
    LET time_until_reset == Max2(0, reset_time - IntTime(t))
    IN  IF remaining_requests <= 0 THEN time_until_reset
        ELSE IF remaining_requests > 0 /\ time_until_reset > 0
             THEN Min2(time_until_reset \div remaining_requests, 60)
             ELSE 0

\* should_continue_requests, without the proactive window
ContinueUnlessExhausted(st, t) == ~st.set \/ ~is_exhausted(st)

\* should_continue_requests that never stops the requests
AlwaysContinue(st, t) == TRUE

\* should_continue_requests that lets an exhausted status go once its reset
\* time has passed
ContinueAfterReset(st, t) ==
    IF ~st.set THEN TRUE
    ELSE IF (is_exhausted(st) \/ st.should_wait) /\ IntTime(t) < st.reset_time THEN FALSE
    ELSE TRUE

\* should_continue_requests
should_continue_requests(st, t) ==
    IF ~st.set THEN TRUE
    ELSE IF is_exhausted(st) THEN FALSE
    ELSE IF st.should_wait /\ IntTime(t) < st.reset_time THEN FALSE
    ELSE TRUE

\* wait_if_needed(force) with current_status st and last_request_time lrt,
\* called at time t: the milliseconds slept, the new last_request_time and
\* the time at which it returns
wait_if_needed(st, lrt, t, force) ==
    IF ~st.set THEN [wait |-> 0, lrt |-> lrt, t |-> t]
    ELSE
      LET exhausted_wait ==
              IF is_exhausted(st)
              THEN calculate_wait_time(st.remaining_requests, st.reset_time, t)
              ELSE 0
          proactive_wait == Min2(st.wait_seconds, 300)
          interval_wait ==
              IF lrt.set /\ lrt.t # 0 /\ t - lrt.t < Sec(1) THEN Sec(1) - (t - lrt.t) ELSE 0
      IN  IF exhausted_wait > 0
          THEN [wait |-> Sec(exhausted_wait), lrt |-> lrt, t |-> t + Sec(exhausted_wait)]
          ELSE IF (force \/ st.should_wait) /\ proactive_wait > 0
          THEN [wait |-> Sec(proactive_wait), lrt |-> lrt, t |-> t + Sec(proactive_wait)]
          ELSE [wait |-> interval_wait,
                lrt |-> [set |-> TRUE, t |-> t + interval_wait],
                t |-> t + interval_wait]

(***************************************************************************)
(* ErrorHandler.  An error message is the set of the keywords it holds.    *)
(***************************************************************************)
MAX_RETRIES == 5
BASE_DELAY == 1
MAX_DELAY == 300

RateLimitWords == {"rate limit", "429"}
TransientWords ==
    {"timeout", "connection", "network", "temporary", "socket", "dns", "unreachable",
     "500", "502", "503", "504", "throttl", "provisionedthroughputexceeded"}
FatalWords == {"401", "403", "unauthorized", "forbidden", "400", "bad request", "invalid"}

\* classify_error that looks for the non-retryable keywords first
ClassifyFatalFirst(msg) ==
    IF msg \cap FatalWords # {} THEN "non_retryable"
    ELSE IF msg \cap RateLimitWords # {} THEN "retryable_rate_limit"
    ELSE IF msg \cap TransientWords # {} THEN "retryable_transient"
    ELSE "non_retryable"

\* classify_error
classify_error(msg) ==
    IF msg \cap RateLimitWords # {} THEN "retryable_rate_limit"
    ELSE IF msg \cap TransientWords # {} THEN "retryable_transient"
    ELSE IF msg \cap FatalWords # {} THEN "non_retryable"
    ELSE "non_retryable"

\* x doubled n times; the doubling stops once cap is reached, which leaves
\* min(x * 2^n, cap) as it is
RECURSIVE Doubled(_, _, _)
Doubled(x, n, cap) == IF n = 0 \/ x >= cap THEN x ELSE Doubled(2 * x, n - 1, cap)

\* a delay that does not grow with the attempt
ConstantDelay(attempt, base_delay, max_delay) == Min2(base_delay, max_delay)

\* delay = min(base_delay * (2 ** attempt), max_delay)
Delay(attempt, base_delay, max_delay) ==
    Min2(Doubled(base_delay, attempt, max_delay), max_delay)

\* 2 ** attempt is an int and base_delay a float (BASE_DELAY = 1.0, or 5.0
\* from handle_error): the product converts the int to a float, which
\* raises OverflowError from 2 ** 1024 on
FloatMaxExp == 1024

Overflows(attempt) == attempt >= FloatMaxExp

\* calculate_backoff_delay in milliseconds, the jitter factor being
\* jitter_tenths / 10 (random.uniform(JITTER_MIN, JITTER_MAX))
calculate_backoff_delay(attempt, base_delay, max_delay, jitter_tenths) ==
    LET delay == Delay(attempt, base_delay, max_delay)
    IN  Sec(delay) + jitter_tenths * delay * 100

\* handle_error that does not look at the attempt
HandleWithoutLimit(msg, attempt, jitter_tenths) ==
    LET classification == classify_error(msg)
    IN  IF classification = "non_retryable"
        THEN [should_retry |-> FALSE, wait |-> 0, classification |-> classification]
        ELSE [should_retry |-> TRUE,
              wait |-> IF classification = "retryable_rate_limit"
                       THEN calculate_backoff_delay(attempt, 5, MAX_DELAY, jitter_tenths)
                       ELSE calculate_backoff_delay(attempt, BASE_DELAY, MAX_DELAY, jitter_tenths),
              classification |-> classification]

\* handle_error that gives up one attempt later
HandleOneMoreRetry(msg, attempt, jitter_tenths) ==
    LET classification == classify_error(msg)
    IN  IF classification = "non_retryable" \/ attempt > MAX_RETRIES
        THEN [should_retry |-> FALSE, wait |-> 0, classification |-> classification]
        ELSE [should_retry |-> TRUE,
              wait |-> IF classification = "retryable_rate_limit"
                       THEN calculate_backoff_delay(attempt, 5, MAX_DELAY, jitter_tenths)
                       ELSE calculate_backoff_delay(attempt, BASE_DELAY, MAX_DELAY, jitter_tenths),
              classification |-> classification]

\* handle_error
handle_error(msg, attempt, jitter_tenths) ==
    LET classification == classify_error(msg)
    IN  IF classification = "non_retryable"
        THEN [should_retry |-> FALSE, wait |-> 0, classification |-> classification]
        ELSE IF attempt >= MAX_RETRIES
        THEN [should_retry |-> FALSE, wait |-> 0, classification |-> classification]
        ELSE [should_retry |-> TRUE,
              wait |-> IF classification = "retryable_rate_limit"
                       THEN calculate_backoff_delay(attempt, 5, MAX_DELAY, jitter_tenths)
                       ELSE calculate_backoff_delay(attempt, BASE_DELAY, MAX_DELAY, jitter_tenths),
              classification |-> classification]

(***************************************************************************)
(* TwitterPollerOptimized: constants and pure parts.                       *)
(***************************************************************************)
MAX_EXECUTION_TIME == 840
DEFAULT_BATCH_SIZE == 25
MAX_TWEETS_PER_EXECUTION == 1000
\* max_results of the search request
MAX_RESULTS == 100

\* should_terminate without the tweet ceiling
TerminateOnTimeOnly(started, t, tweets) == t - started >= Sec(MAX_EXECUTION_TIME)

\* should_terminate without the time limit
TerminateOnCountOnly(started, t, tweets) == tweets >= MAX_TWEETS_PER_EXECUTION

\* should_terminate with the ceiling compared by >
TerminateAboveCeiling(started, t, tweets) ==
    \/ t - started >= Sec(MAX_EXECUTION_TIME)
    \/ tweets > MAX_TWEETS_PER_EXECUTION

\* should_terminate, at time t
should_terminate(started, t, tweets) ==
    \/ t - started >= Sec(MAX_EXECUTION_TIME)
    \/ tweets >= MAX_TWEETS_PER_EXECUTION

\* tweet_page[i:min(i + batch_size, len(tweet_page))], i counted from 0
\* a slicing that sends full slices only
BatchDropsRemainder(page, i, size) ==
    IF i + size <= Len(page) THEN SubSeq(page, i + 1, i + size) ELSE <<>>

\* tweet_page[i:min(i + self.batch_size, len(tweet_page))]
Batch(page, i, size) == SubSeq(page, i + 1, Min2(i + size, Len(page)))

\* a batch loop that gives the page up when an invoke raises
AbortPage(i, size, n, invoked) == IF invoked THEN i + size ELSE n

\* the index after i of range(0, n, size): the except clause is inside the
\* loop body, so the loop goes on whether the invoke returned or raised
NextIndex(i, size, n, invoked) == i + size

\* the greatest id of the page as a string
MaxLexical(page) ==
    LET best == CHOOSE s \in {page[j] : j \in DOMAIN page} :
                    \A j \in DOMAIN page : page[j] = s \/ LexLess(page[j], s)
    IN  ParseInt(best).val

\* a summary that reports success whatever happened
AlwaysOk(raised) == 200

\* statusCode of the summary execute returns: from its try block, or from
\* its except clause when an exception reached it
SummaryStatus(raised) == IF raised THEN 500 ELSE 200

\* max() of a non-empty set of integers
SetMax(S) == CHOOSE m \in S : \A n \in S : n <= m

\* max(int(tweet['id']) for tweet in tweet_page); the ids are converted
\* once, before the greatest is looked for
MaxNum(page) ==
    CHOOSE m \in {SetMax(ids) : ids \in {{ParseInt(page[j]).val : j \in DOMAIN page}}} : TRUE

(***************************************************************************)
(* State.                                                                  *)
(***************************************************************************)
VARIABLES
    store,        \* the checkpoint record of the table
    faults,       \* store requests that have failed so far
    pc,           \* pc[i]: where invocation i stands
    since,        \* since[i]: the cursor recover_from_corruption returned
    arg,          \* arg[i]: since_id of the running _update_checkpoint
    prev,         \* prev[i]: previous_id read by _update_checkpoint
    advCount,     \* advCount[i]: _update_checkpoint calls made
    hist,         \* history: the last two conditional puts the table applied, oldest first
    maxApplied    \* history: the greatest since_id (as a number) any conditional put carried

storeVars == <<store, faults, pc, since, arg, prev, advCount, hist, maxApplied>>

\* The invocation whose execute() is followed step by step is invocation 1.
VARIABLES
    upstream,            \* the kind of upstream this invocation meets
    batch_size,          \* self.batch_size
    now,                 \* time.time(), in milliseconds
    started,             \* self.execution_start_time
    tweets_processed,    \* self.metrics.tweets_processed
    api_calls_made,      \* self.metrics.api_calls_made
    errors_encountered,  \* self.metrics.errors_encountered
    batches_sent,        \* self.metrics.batches_sent
    checkpoint_updates,  \* self.metrics.checkpoint_updates
    rate_limit_waits,    \* self.metrics.rate_limit_waits
    current_status,      \* self.rate_limit_manager.current_status
    last_request_time,   \* self.rate_limit_manager.last_request_time
    next_token,          \* next_token of search_with_pagination (0: None)
    page_count,          \* page_count of search_with_pagination
    resp_token,          \* response.meta next_token of the page yielded (0: none)
    tweet_page,          \* tweet_page of process_batch_stream
    offset,              \* i of the batch loop of process_batch_stream
    status,              \* statusCode execute returned (0: still running)
    fastCalls,           \* upstream calls that took no measurable time
    fetchFailures,       \* upstream calls that raised
    dispatchFailures,    \* lambda invocations that raised
    sentItems,           \* history: the items of the slices handed to invoke for this page
    sliceLens,           \* history: the lengths of those slices
    failedSlices,        \* history: how many of those invokes raised
    casCalls,            \* history: update_checkpoint_atomic calls made for this page
    guardTripped,        \* history: should_terminate has returned True
    lastHeaders,         \* history: the rate limit headers parsed last
    escaped              \* history: an exception reached execute's except clause

metricVars ==
    <<tweets_processed, api_calls_made, errors_encountered, batches_sent,
      checkpoint_updates, rate_limit_waits>>

governorVars == <<current_status, last_request_time>>

pageVars == <<tweet_page, offset, resp_token, sentItems, sliceLens, failedSlices, casCalls>>

envVars == <<fastCalls, fetchFailures, dispatchFailures>>

execVars ==
    <<upstream, batch_size, now, started, metricVars, governorVars, next_token, page_count,
      pageVars, status, envVars, guardTripped, lastHeaders, escaped>>

\* What the calls of the rate limit manager and of the error handler, taken
\* alone, were given and what they returned.
VARIABLES
    stopReason,   \* history: why the pagination of invocation 1 ended ("": it has not)
    failure,      \* str(e) of the exception the error handler is asked about
    attempt,      \* attempt of the next handle_error call
    decision,     \* the last handle_error call: its arguments and its RetryDecision
    prevWait,     \* wait_seconds of the RetryDecision before that one (-1: none)
    backoff,      \* the last calculate_backoff_delay call: its arguments and its result
    observed,     \* the last parse_rate_limit_headers call: its arguments and its result
    awaited,      \* the last wait_if_needed call: its arguments and its result
    validated,    \* the last validate_checkpoint call: its argument and its result
    resolved,     \* the last handle_checkpoint_conflict call: its arguments and its result
    secret,       \* what get_parameters answered to _create_x_client ("": not asked)
    request       \* history: the last search_recent_tweets call of invocation 1

retryVars == <<failure, attempt, decision, prevWait, backoff>>

callVars == <<observed, awaited>>

managerVars == <<validated, resolved, secret>>

probeVars == <<stopReason, retryVars, callVars, managerVars, request>>

\* ErrorHandler.execute_with_retry, the handler of index.py that the
\* optimized poller replaces, and the handler of the image function.
VARIABLES
    retrying,     \* one execute_with_retry call: its loop variable and what it has done
    legacy,       \* per invocation of index.handler: its position and its locals
    image         \* one invocation of the rekognition handler: its position and locals

handlerVars == <<retrying, legacy, image>>

vars == <<storeVars, execVars, probeVars, handlerVars>>

NoDecision ==
    [made |-> FALSE, attempt |-> 0, jitter |-> 0, should_retry |-> FALSE, wait |-> 0,
     classification |-> ""]

NoBackoff ==
    [called |-> FALSE, attempt |-> 0, base |-> 0, cap |-> 0, jitter |-> 0,
     raised |-> FALSE, delay |-> 0, value |-> 0]

\* a header of the response: missing, an integer in decimal, or other text
Missing == [kind |-> "missing", v |-> 0]
Bad == [kind |-> "bad", v |-> 0]
Num(n) == [kind |-> "int", v |-> n]

NoObserved ==
    [called |-> FALSE, calls |-> 0, limit |-> Missing, remaining |-> Missing, reset |-> Missing,
     at |-> 0, raised |-> FALSE, returned |-> NoStatus]

NoAwaited ==
    [called |-> FALSE, calls |-> 0, force |-> FALSE, at |-> 0, slept |-> 0,
     lrtAfter |-> NoTime, status |-> NoStatus, lrt |-> NoTime, prevEnd |-> -1]

NoValidated == [called |-> FALSE, since_id |-> <<>>, result |-> FALSE]

NoResolved ==
    [called |-> FALSE, attempted_id |-> <<>>, current_id |-> NoneStr, result |-> <<>>]

\* no call yet; run counts the failures of the call made last, in a row
NoRequest ==
    [made |-> FALSE, pagination_token |-> 0, since_id |-> NoneStr, failed |-> FALSE,
     page |-> FALSE, run |-> 0]

\* execute_with_retry has been entered: attempt is the loop variable, calls
\* the calls of func, waits the sleeps, errors what func raised, and outcome
\* how it ended ("": it has not)
NoRetrying ==
    [outcome |-> "", attempt |-> 0, calls |-> 0, waits |-> <<>>, decided |-> <<>>,
     errors |-> <<>>, result |-> 0]

\* index.handler has been entered: since_id and all_tweets of
\* _search_batches, the offset of the next batch, the batches invoked, and
\* what became of the put ("none": not requested)
NoLegacy ==
    [pc |-> "start", since_id |-> NoneStr, all_tweets |-> <<>>, offset |-> 0, invoked |-> 0,
     put |-> "none", before |-> NoRecord]

\* the rekognition handler has been entered: retries of the loop it is in,
\* the calls made to each service, the sleeps in hundredths of a second, and
\* the result returned ("": none yet)
NoImage ==
    [pc |-> "start", has_url |-> FALSE, downloaded |-> FALSE, retries |-> 0,
     moderation_calls |-> 0, face_calls |-> 0, moderated |-> FALSE, labels |-> 0,
     faces |-> 0, raised |-> <<>>, slept |-> <<>>, result |-> ""]

HandlerInit ==
    /\ retrying = NoRetrying
    /\ legacy = [i \in Invs |-> NoLegacy]
    /\ image = NoImage

ManagerInit ==
    /\ HandlerInit
    /\ validated = NoValidated
    /\ resolved = NoResolved
    /\ secret = ""
    /\ request = NoRequest

ProbeInit ==
    /\ ManagerInit
    /\ stopReason = ""
    /\ failure = {}
    /\ attempt = 0
    /\ decision = NoDecision
    /\ prevWait = -1
    /\ backoff = NoBackoff
    /\ observed = NoObserved
    /\ awaited = NoAwaited

\* ids of the pages the invocations of the store protocol handle
CandidateNums == {9, 10, 120, 150}

\* the clock when the invocation is constructed, in seconds
StartTime == 1000

\* TwitterPollerOptimized.__init__, RateLimitManager.__init__, ExecutionMetrics()
ExecInit ==
    /\ now = Sec(StartTime)
    /\ started = Sec(StartTime)
    /\ tweets_processed = 0
    /\ api_calls_made = 0
    /\ errors_encountered = 0
    /\ batches_sent = 0
    /\ checkpoint_updates = 0
    /\ rate_limit_waits = 0
    /\ current_status = NoStatus
    /\ last_request_time = NoTime
    /\ next_token = 0
    /\ page_count = 0
    /\ resp_token = 0
    /\ tweet_page = <<>>
    /\ offset = 0
    /\ status = 0
    /\ fastCalls = 0
    /\ fetchFailures = 0
    /\ dispatchFailures = 0
    /\ sentItems = <<>>
    /\ sliceLens = <<>>
    /\ failedSlices = 0
    /\ casCalls = 0
    /\ guardTripped = FALSE
    /\ lastHeaders = [limit |-> 0, remaining |-> 0, reset |-> 0, seen |-> FALSE]
    /\ escaped = FALSE

LocalsInit ==
    /\ since = [i \in Invs |-> NoneStr]
    /\ arg = [i \in Invs |-> <<>>]
    /\ prev = [i \in Invs |-> NoneStr]
    /\ advCount = [i \in Invs |-> 0]
    /\ hist = <<>>

StoreInit ==
    /\ faults = 0
    /\ LocalsInit

(***************************************************************************)
(* CheckpointManager.recover_from_corruption, in its two store requests.   *)
(***************************************************************************)
\* what recover_from_corruption does with the value get_last_checkpoint gave
RecoverKeeps(current) == Truthy(current) /\ validate_checkpoint(current.v)

\* get_last_checkpoint inside recover_from_corruption; a ClientError of
\* get_item is caught there and None returned (the position after it is
\* then "rec_delete_unread": the same statement, reached without a read)
RecoverRead(i) ==
    /\ pc[i] = "recover"
    /\ \E failed \in {FALSE, TRUE} :
         /\ failed => faults < MaxStoreFaults
         /\ faults' = IF failed THEN faults + 1 ELSE faults
         /\ LET current == IF failed THEN NoneStr ELSE ReadCheckpoint(store) IN
              IF RecoverKeeps(current)
              THEN /\ pc' = [pc EXCEPT ![i] = "loop"]
                   /\ since' = [since EXCEPT ![i] = current]
              ELSE /\ pc' = [pc EXCEPT ![i] =
                                IF failed THEN "rec_delete_unread" ELSE "rec_delete"]
                   /\ since' = since
    /\ UNCHANGED <<store, arg, prev, advCount, hist, maxApplied>>

\* delete_item of recover_from_corruption; its ClientError is logged only
RecoverDelete(i) ==
    /\ pc[i] \in {"rec_delete", "rec_delete_unread"}
    /\ \E failed \in {FALSE, TRUE} :
         /\ failed => faults < MaxStoreFaults
         /\ faults' = IF failed THEN faults + 1 ELSE faults
         /\ store' = IF failed THEN store ELSE NoRecord
    /\ pc' = [pc EXCEPT ![i] = "loop"]
    /\ since' = [since EXCEPT ![i] = NoneStr]
    /\ UNCHANGED <<arg, prev, advCount, hist, maxApplied>>

(***************************************************************************)
(* TwitterPollerOptimized._update_checkpoint.                              *)
(***************************************************************************)
\* _update_checkpoint(since_id) up to its first store request: an invalid
\* since_id returns at once, otherwise previous_id = get_last_checkpoint(),
\* where a ClientError of get_item is caught and gives None
UpdRead(i, since_id, ret) ==
    /\ arg' = [arg EXCEPT ![i] = since_id]
    /\ advCount' = [advCount EXCEPT ![i] = @ + 1]
    /\ IF validate_checkpoint(since_id)
       THEN /\ pc' = [pc EXCEPT ![i] = "upd_cas"]
            /\ \E failed \in {FALSE, TRUE} :
                 /\ failed => faults < MaxStoreFaults
                 /\ faults' = IF failed THEN faults + 1 ELSE faults
                 /\ prev' = [prev EXCEPT ![i] =
                               IF failed THEN NoneStr ELSE ReadCheckpoint(store)]
       ELSE /\ pc' = [pc EXCEPT ![i] = ret]
            /\ UNCHANGED <<faults, prev>>
    /\ UNCHANGED <<store, since, hist, maxApplied>>

\* history: one more conditional put applied, by invocation i with since_id
\* and previous_id seen, on the record rec, with the result ok
Recorded(h, i, since_id, seen, rec, ok) ==
    LET e == [inv |-> i, val |-> since_id, seen |-> seen, before |-> rec, ok |-> ok]
    IN  IF h = <<>> THEN <<e>> ELSE <<h[Len(h)], e>>

\* update_checkpoint_atomic that returns False on every ClientError
ClientErrorSwallowed(code, ret) ==
    IF code = "ConditionalCheckFailedException" THEN ret ELSE ret

\* the except clause of update_checkpoint_atomic: return False to the
\* caller, which goes on at ret, or raise
AfterClientError(code, ret) ==
    IF code = "ConditionalCheckFailedException" THEN ret ELSE "raised"

\* update_checkpoint_atomic: the conditional put_item, applied atomically by
\* the table; ConditionalCheckFailedException gives False, another
\* ClientError is raised.  since_id and previous_id are locals of
\* _update_checkpoint and are gone when it returns.
UpdCas(i, ret) ==
    /\ pc[i] = "upd_cas"
    /\ \/ /\ AdvanceCondition(store, arg[i])
          /\ store' = NewRecord(arg[i])
          /\ hist' = Recorded(hist, i, arg[i], prev[i], store, TRUE)
          /\ maxApplied' = Max2(maxApplied, ParseInt(arg[i]).val)
          /\ pc' = [pc EXCEPT ![i] = ret]
          /\ UNCHANGED faults
       \/ /\ ~AdvanceCondition(store, arg[i])
          /\ hist' = Recorded(hist, i, arg[i], prev[i], store, FALSE)
          /\ maxApplied' = Max2(maxApplied, ParseInt(arg[i]).val)
          /\ pc' = [pc EXCEPT ![i] = AfterClientError("ConditionalCheckFailedException", ret)]
          /\ UNCHANGED <<store, faults>>
       \/ /\ faults < MaxStoreFaults
          /\ faults' = faults + 1
          /\ pc' = [pc EXCEPT ![i] = AfterClientError("InternalServerError", ret)]
          /\ UNCHANGED <<store, hist, maxApplied>>
    /\ prev' = [prev EXCEPT ![i] = NoneStr]
    /\ arg' = [arg EXCEPT ![i] = <<>>]
    /\ UNCHANGED <<since, advCount>>

(***************************************************************************)
(* The store protocol of overlapping invocations: recover_from_corruption  *)
(* at the start of execute, then one _update_checkpoint per page.          *)
(***************************************************************************)
\* a page whose newest id is n has been dispatched: process_batch_stream
\* calls _update_checkpoint(str(newest_id))
HandlePage(i) ==
    /\ pc[i] = "loop"
    /\ advCount[i] < MaxAdvances
    /\ \E n \in CandidateNums : UpdRead(i, Str(n), "loop")

\* the cursor a record put by an earlier update_checkpoint_atomic holds
InitialCursor == 100

Init ==
    /\ StoreInit
    /\ store \in {NoRecord, NewRecord(Str(InitialCursor))}
    /\ maxApplied = IF store.present THEN store.since_id_num ELSE 0
    /\ pc = [i \in Invs |-> "recover"]
    /\ ExecInit
    /\ ProbeInit
    /\ upstream = "slow"
    /\ batch_size = DEFAULT_BATCH_SIZE

Next ==
    /\ UNCHANGED <<execVars, probeVars, handlerVars>>
    /\ \E i \in Invs :
        \/ RecoverRead(i)
        \/ RecoverDelete(i)
        \/ HandlePage(i)
        \/ UpdCas(i, "loop")

Spec == Init /\ [][Next]_vars

\* no invocation is running: the state in which the error handler and the
\* rate limit manager are called on their own
Parked ==
    /\ StoreInit
    /\ store = NoRecord
    /\ maxApplied = 0
    /\ pc = [i \in Invs |-> "idle"]
    /\ ExecInit
    /\ ManagerInit
    /\ stopReason = ""
    /\ upstream = "slow"
    /\ batch_size = DEFAULT_BATCH_SIZE

parkedVars == <<storeVars, execVars, stopReason, managerVars, request, handlerVars>>

\* update_checkpoint_atomic calls alone, on a table that is empty or holds
\* the record of an earlier call
InitAdvance ==
    /\ StoreInit
    /\ store \in {NoRecord, NewRecord(Str(InitialCursor))}
    /\ maxApplied = IF store.present THEN store.since_id_num ELSE 0
    /\ pc = [i \in Invs |-> "loop"]
    /\ ExecInit
    /\ ProbeInit
    /\ upstream = "slow"
    /\ batch_size = DEFAULT_BATCH_SIZE

NextAdvance ==
    /\ UNCHANGED <<execVars, probeVars, handlerVars>>
    /\ \E i \in Invs :
        \/ HandlePage(i)
        \/ UpdCas(i, "loop")

SpecAdvance == InitAdvance /\ [][NextAdvance]_vars


(***************************************************************************)
(* The upstream search, the lambda sink: what the environment may answer.  *)
(***************************************************************************)
\* transformed pages of an upstream that answers with short pages
MixedPages == {<<Str(9), Str(10)>>, <<Str(150), Str(9), Str(120)>>}

\* the page an upstream with full pages gives to call number k: n tweets,
\* newest first, older than those of the calls before
BulkPage(k, n) == [j \in 1..n |-> Str(BulkTop - MAX_RESULTS * k - j + 1)]

\* the transformed page and the next_token (0: none) call number k may
\* return: a page shorter than max_results is the last one
PageResponses(kind, k) ==
    IF kind = "bulk"
    THEN {<<BulkPage(k, MAX_RESULTS), k + 1>>, <<BulkPage(k, MAX_RESULTS), 0>>,
          <<BulkPage(k, 30), 0>>}
    ELSE MixedPages \X {0, k + 1}

\* response.headers: absent, or the three rate limit headers as integers
NoHeaders == [present |-> FALSE, limit |-> 0, remaining |-> 0, reset |-> 0]

Telemetry(remaining, reset) ==
    [present |-> TRUE, limit |-> 10, remaining |-> remaining, reset |-> reset]

Headers(kind, t) ==
    {NoHeaders} \cup
    (IF kind = "limited"
     THEN {Telemetry(0, IntTime(t) + 30), Telemetry(2, IntTime(t) + 30),
           Telemetry(2, IntTime(t) - 1), Telemetry(9, IntTime(t) + 30)}
     ELSE {})

\* how long a call takes: SlowCallSeconds of a slow upstream; of the others
\* FastCallMillis, and after MaxFastCalls such calls the whole budget
Durations(kind) ==
    IF kind = "slow" THEN {Sec(SlowCallSeconds)}
    ELSE IF kind = "bulk" \/ fastCalls < MaxFastCalls THEN {FastCallMillis}
    ELSE {Sec(MAX_EXECUTION_TIME)}

\* str(e) of the exceptions search_recent_tweets raises
ErrorMessages == {{"timeout"}, {"429"}, {"401"}, {}}

\* and of an upstream that keeps failing
StormMessages == {{"timeout"}, {"401"}}

\* tenths the jitter factor random.uniform(0.1, 0.3) may take
JitterTenths == {1, 3}

\* and the one followed when the upstream keeps failing
StormJitters == {2}

\* upstream calls that may raise in an invocation
FailureCap(kind) ==
    IF kind = "flaky" THEN MaxFetchFailures
    ELSE IF kind = "storm" THEN MaxStormFailures
    ELSE 0

(***************************************************************************)
(* TwitterPollerOptimized.execute of invocation 1, step by step.  A step   *)
(* is one request to the upstream, the sink or the table, with the local   *)
(* code before and after it.                                               *)
(***************************************************************************)
\* pagination has ended: process_batch_stream returns and execute returns
\* the summary with statusCode 200
Finished ==
    /\ pc' = [pc EXCEPT ![1] = "done"]
    /\ status' = SummaryStatus(FALSE)

\* response.headers handed to parse_rate_limit_headers at time t
Observed(h, t) == IF h.present THEN parse_rate_limit_headers(h, t) ELSE current_status

Observe(h, t) ==
    /\ current_status' = Observed(h, t)
    /\ rate_limit_waits' =
         IF h.present /\ Observed(h, t).should_wait THEN rate_limit_waits + 1
         ELSE rate_limit_waits
    /\ lastHeaders' =
         IF h.present
         THEN [limit |-> h.limit, remaining |-> h.remaining, reset |-> h.reset, seen |-> TRUE]
         ELSE lastHeaders

\* search_with_pagination that does not keep the next_token of the response
ContinueWithoutToken(tok, st, lrt, t) ==
    IF tok = 0
    THEN /\ Finished
         /\ now' = t
         /\ last_request_time' = lrt
         /\ UNCHANGED next_token
    ELSE /\ UNCHANGED next_token
         /\ now' = wait_if_needed(st, lrt, t, FALSE).t
         /\ last_request_time' = wait_if_needed(st, lrt, t, FALSE).lrt
         /\ pc' = [pc EXCEPT ![1] = "loop"]
         /\ UNCHANGED status

\* search_with_pagination after a page: no next_token ends the pagination,
\* otherwise next_token is kept and wait_if_needed() is called
Continue(tok, st, lrt, t) ==
    IF tok = 0
    THEN /\ Finished
         /\ now' = t
         /\ last_request_time' = lrt
         /\ UNCHANGED next_token
    ELSE /\ next_token' = tok
         /\ now' = wait_if_needed(st, lrt, t, FALSE).t
         /\ last_request_time' = wait_if_needed(st, lrt, t, FALSE).lrt
         /\ pc' = [pc EXCEPT ![1] = "loop"]
         /\ UNCHANGED status

\* the head of the while loop up to the upstream call
CanCall ==
    /\ pc[1] = "loop"
    /\ ~should_terminate(started, now, tweets_processed)
    /\ should_continue_requests(current_status, now)
    /\ api_calls_made + fetchFailures < CallCap
    /\ now - started < Sec(ClockCap)

Took(d) ==
    fastCalls' = IF d = FastCallMillis /\ upstream # "bulk" THEN fastCalls + 1 ELSE fastCalls

\* should_terminate() is True: break
GuardStop ==
    /\ pc[1] = "loop"
    /\ should_terminate(started, now, tweets_processed)
    /\ guardTripped' = TRUE
    /\ Finished
    /\ UNCHANGED <<store, faults, since, arg, prev, advCount, hist, maxApplied>>
    /\ UNCHANGED <<upstream, batch_size, now, started, metricVars, governorVars, next_token,
                   page_count, pageVars, envVars, lastHeaders, escaped>>

\* should_continue_requests() is False: break
RateStop ==
    /\ pc[1] = "loop"
    /\ ~should_terminate(started, now, tweets_processed)
    /\ ~should_continue_requests(current_status, now)
    /\ Finished
    /\ UNCHANGED <<store, faults, since, arg, prev, advCount, hist, maxApplied>>
    /\ UNCHANGED <<upstream, batch_size, now, started, metricVars, governorVars, next_token,
                   page_count, pageVars, envVars, guardTripped, lastHeaders, escaped>>

\* the call returns a response without data: break
FetchNoData ==
    /\ CanCall
    /\ \E d \in Durations(upstream) : \E h \in Headers(upstream, now + d) :
         /\ Took(d)
         /\ now' = now + d
         /\ Observe(h, now + d)
    /\ api_calls_made' = api_calls_made + 1
    /\ Finished
    /\ UNCHANGED <<store, faults, since, arg, prev, advCount, hist, maxApplied>>
    /\ UNCHANGED <<upstream, batch_size, started, tweets_processed, errors_encountered,
                   batches_sent, checkpoint_updates, last_request_time, next_token,
                   page_count, pageVars, fetchFailures, dispatchFailures, guardTripped,
                   escaped>>

\* the call returns tweets of which _transform_tweets keeps none
FetchFiltered ==
    /\ CanCall
    /\ upstream # "bulk"
    /\ \E d \in Durations(upstream) : \E h \in Headers(upstream, now + d),
          tok \in {0, api_calls_made + 1} :
         /\ Took(d)
         /\ Observe(h, now + d)
         /\ Continue(tok, Observed(h, now + d), last_request_time, now + d)
    /\ api_calls_made' = api_calls_made + 1
    /\ UNCHANGED <<store, faults, since, arg, prev, advCount, hist, maxApplied>>
    /\ UNCHANGED <<upstream, batch_size, started, tweets_processed, errors_encountered,
                   batches_sent, checkpoint_updates, page_count, pageVars, fetchFailures,
                   dispatchFailures, guardTripped, escaped>>

\* the call returns tweets with photos: the transformed page is yielded to
\* process_batch_stream
FetchPage ==
    /\ CanCall
    /\ \E d \in Durations(upstream) : \E h \in Headers(upstream, now + d),
          r \in PageResponses(upstream, api_calls_made) :
         /\ Took(d)
         /\ now' = now + d
         /\ Observe(h, now + d)
         /\ tweet_page' = r[1]
         /\ resp_token' = r[2]
    /\ api_calls_made' = api_calls_made + 1
    /\ page_count' = page_count + 1
    /\ offset' = 0
    /\ sentItems' = <<>>
    /\ sliceLens' = <<>>
    /\ failedSlices' = 0
    /\ casCalls' = 0
    /\ pc' = [pc EXCEPT ![1] = "dispatch"]
    /\ UNCHANGED <<store, faults, since, arg, prev, advCount, hist, maxApplied>>
    /\ UNCHANGED <<upstream, batch_size, started, tweets_processed, errors_encountered,
                   batches_sent, checkpoint_updates, last_request_time, next_token, status,
                   fetchFailures, dispatchFailures, guardTripped, escaped>>

\* a time.sleep that is skipped
NoSleep(t, wait) == t

\* the time at which time.sleep(wait), called at t, returns
Slept(t, wait) == t + wait

\* the call raises: handle_error decides with attempt errors_encountered - 1
FetchFail ==
    /\ CanCall
    /\ fetchFailures < FailureCap(upstream)
    /\ fetchFailures' = fetchFailures + 1
    /\ errors_encountered' = errors_encountered + 1
    /\ \E msg \in (IF upstream = "storm" THEN StormMessages ELSE ErrorMessages),
          j \in (IF upstream = "storm" THEN StormJitters ELSE JitterTenths) :
         LET retry_decision == handle_error(msg, errors_encountered' - 1, j) IN
           IF retry_decision.should_retry
           THEN /\ now' = Slept(now, retry_decision.wait)
                /\ UNCHANGED <<pc, status>>
           ELSE /\ Finished
                /\ UNCHANGED now
    /\ UNCHANGED <<store, faults, since, arg, prev, advCount, hist, maxApplied>>
    /\ UNCHANGED <<upstream, batch_size, started, tweets_processed, api_calls_made,
                   batches_sent, checkpoint_updates, rate_limit_waits, governorVars,
                   next_token, page_count, pageVars, fastCalls, dispatchFailures,
                   guardTripped, lastHeaders, escaped>>

\* a count that takes every slice for a full one
CountFullSlice(processed, batch) == processed + batch_size

\* self.metrics.tweets_processed += len(batch), after the invoke returned
CountItems(processed, batch) == processed + Len(batch)

\* one turn of the batch loop of process_batch_stream: lambda_client.invoke
\* of the next slice returns or raises
Dispatch ==
    /\ pc[1] = "dispatch"
    /\ offset < Len(tweet_page)
    /\ LET batch == Batch(tweet_page, offset, batch_size) IN
         /\ sentItems' = sentItems \o batch
         /\ sliceLens' = Append(sliceLens, Len(batch))
         /\ \/ /\ batches_sent' = batches_sent + 1
               /\ tweets_processed' = CountItems(tweets_processed, batch)
               /\ offset' = NextIndex(offset, batch_size, Len(tweet_page), TRUE)
               /\ UNCHANGED <<errors_encountered, dispatchFailures, failedSlices>>
            \/ /\ upstream \in {"slow", "bulk", "storm"}
               /\ dispatchFailures < MaxDispatchFailures
               /\ dispatchFailures' = dispatchFailures + 1
               /\ errors_encountered' = errors_encountered + 1
               /\ failedSlices' = failedSlices + 1
               /\ offset' = NextIndex(offset, batch_size, Len(tweet_page), FALSE)
               /\ UNCHANGED <<batches_sent, tweets_processed>>
    /\ UNCHANGED storeVars
    /\ UNCHANGED <<upstream, batch_size, now, started, api_calls_made, checkpoint_updates,
                   rate_limit_waits, governorVars, next_token, page_count, resp_token,
                   tweet_page, casCalls, status, fastCalls, fetchFailures, guardTripped,
                   lastHeaders, escaped>>

\* after the batch loop: newest_id and _update_checkpoint(str(newest_id)),
\* up to its get_last_checkpoint
Checkpoint ==
    /\ pc[1] = "dispatch"
    /\ offset >= Len(tweet_page)
    /\ \E newest_id \in {MaxNum(tweet_page)} :
         \E since_id \in {Str(newest_id)} : UpdRead(1, since_id, "resume")
    /\ UNCHANGED execVars

\* update_checkpoint_atomic returns and _update_checkpoint counts a success
CheckpointCas ==
    /\ UpdCas(1, "resume")
    /\ casCalls' = casCalls + 1
    /\ checkpoint_updates' =
         IF pc'[1] = "resume" /\ faults' = faults /\ hist'[Len(hist')].ok
         THEN checkpoint_updates + 1
         ELSE checkpoint_updates
    /\ UNCHANGED <<upstream, batch_size, now, started, tweets_processed, api_calls_made,
                   errors_encountered, batches_sent, rate_limit_waits, governorVars,
                   next_token, page_count, resp_token, tweet_page, offset, sentItems,
                   sliceLens, failedSlices, status, envVars, guardTripped, lastHeaders,
                   escaped>>

\* the generator resumes after the yield
Resume ==
    /\ pc[1] = "resume"
    /\ Continue(resp_token, current_status, last_request_time, now)
    /\ UNCHANGED <<store, faults, since, arg, prev, advCount, hist, maxApplied>>
    /\ UNCHANGED <<upstream, batch_size, started, metricVars, current_status, page_count,
                   pageVars, envVars, guardTripped, lastHeaders, escaped>>

\* the ClientError update_checkpoint_atomic raised reaches execute
ExecuteExcept ==
    /\ pc[1] = "raised"
    /\ pc' = [pc EXCEPT ![1] = "done"]
    /\ status' = SummaryStatus(TRUE)
    /\ escaped' = TRUE
    /\ UNCHANGED <<store, faults, since, arg, prev, advCount, hist, maxApplied>>
    /\ UNCHANGED <<upstream, batch_size, now, started, metricVars, governorVars, next_token,
                   page_count, pageVars, envVars, guardTripped, lastHeaders>>

\* batch_size and upstream of the invocations followed
Configs == {<<"bulk", DEFAULT_BATCH_SIZE>>, <<"slow", 2>>, <<"limited", 2>>, <<"flaky", 2>>}

InitExec ==
    /\ \E c \in Configs : upstream = c[1] /\ batch_size = c[2]
    /\ LocalsInit
    /\ faults = IF upstream = "slow" THEN 0 ELSE MaxStoreFaults
    /\ store \in {NoRecord, NewRecord(Str(InitialCursor))}
    /\ maxApplied = IF store.present THEN store.since_id_num ELSE 0
    /\ pc = [i \in Invs |-> IF i = 1 THEN "recover" ELSE "idle"]
    /\ ExecInit
    /\ ProbeInit

\* a step of the loop that calls search_recent_tweets: the call returns or raises
CallIssued == api_calls_made' # api_calls_made \/ fetchFailures' # fetchFailures

\* history: query_params of the call of this step, whether it raised,
\* whether it gave a page to process_batch_stream, and how many calls in a
\* row have raised before it
Requested ==
    [made |-> TRUE, pagination_token |-> next_token, since_id |-> since[1],
     failed |-> fetchFailures' # fetchFailures,
     page |-> page_count' # page_count,
     run |-> IF request.made /\ request.failed THEN request.run + 1 ELSE 0]

\* history: the statement that ended the pagination, once the step is done,
\* and the call made, if the step made one
Stops(reason) ==
    /\ stopReason' = IF pc'[1] = "done" /\ pc[1] # "done" THEN reason ELSE stopReason
    /\ request' = IF CallIssued THEN Requested ELSE request
    /\ UNCHANGED <<retryVars, callVars, managerVars, handlerVars>>

NextExec ==
    \/ RecoverRead(1) /\ UNCHANGED execVars /\ Stops("")
    \/ RecoverDelete(1) /\ UNCHANGED execVars /\ Stops("")
    \/ GuardStop /\ Stops("guard")
    \/ RateStop /\ Stops("rate_limit")
    \/ FetchNoData /\ Stops("no_data")
    \/ FetchFiltered /\ Stops("no_token")
    \/ FetchPage /\ Stops("")
    \/ FetchFail /\ Stops("no_retry")
    \/ Dispatch /\ Stops("")
    \/ Checkpoint /\ Stops("")
    \/ CheckpointCas /\ Stops("")
    \/ Resume /\ Stops("no_token")
    \/ ExecuteExcept /\ Stops("exception")

SpecExec == InitExec /\ [][NextExec]_vars /\ WF_vars(NextExec)

(***************************************************************************)
(* An invocation whose upstream keeps failing, between pages or not, and   *)
(* whose sink may fail too.                                                *)
(***************************************************************************)
InitStorm ==
    /\ upstream = "storm"
    /\ batch_size = 2
    /\ LocalsInit
    /\ faults = MaxStoreFaults
    /\ store \in {NoRecord, NewRecord(Str(InitialCursor))}
    /\ maxApplied = IF store.present THEN store.since_id_num ELSE 0
    /\ pc = [i \in Invs |-> IF i = 1 THEN "recover" ELSE "idle"]
    /\ ExecInit
    /\ ProbeInit

\* no response of this upstream has headers and no request to the table
\* fails, so the pagination never ends on the rate limit or on an exception
NextStorm ==
    \/ RecoverRead(1) /\ UNCHANGED execVars /\ Stops("")
    \/ RecoverDelete(1) /\ UNCHANGED execVars /\ Stops("")
    \/ GuardStop /\ Stops("guard")
    \/ FetchNoData /\ Stops("no_data")
    \/ FetchFiltered /\ Stops("no_token")
    \/ FetchPage /\ Stops("")
    \/ FetchFail /\ Stops("no_retry")
    \/ Dispatch /\ Stops("")
    \/ Checkpoint /\ Stops("")
    \/ CheckpointCas /\ Stops("")
    \/ Resume /\ Stops("no_token")

SpecStorm == InitStorm /\ [][NextStorm]_vars

(***************************************************************************)
(* The invocation from the construction of the poller: __init__ builds the *)
(* components and reads the bearer token before execute can be called.     *)
(***************************************************************************)
\* get_parameters of _create_x_client: the parameter is returned, is listed
\* in InvalidParameters, or the request raises
SecretOutcomes == {"ok", "missing", "error"}

\* a constructor that goes on without the bearer token
CredentialsIgnored(outcome) == IF outcome = "ok" THEN "recover" ELSE "recover"

\* _create_x_client raises RuntimeError for a missing parameter and re-raises
\* what get_parameters raised; __init__ does not catch, so no poller exists
\* and execute is not called
AfterCredentials(outcome) == IF outcome = "ok" THEN "recover" ELSE "aborted"

\* TwitterPollerOptimized.__init__
Construct ==
    /\ pc[1] = "init"
    /\ \E outcome \in SecretOutcomes :
         /\ secret' = outcome
         /\ pc' = [pc EXCEPT ![1] = AfterCredentials(outcome)]
    /\ UNCHANGED <<store, faults, since, arg, prev, advCount, hist, maxApplied>>
    /\ UNCHANGED <<execVars, stopReason, retryVars, callVars, validated, resolved, request,
                   handlerVars>>

InitStart ==
    /\ \E c \in Configs : upstream = c[1] /\ batch_size = c[2]
    /\ LocalsInit
    /\ faults = IF upstream = "slow" THEN 0 ELSE MaxStoreFaults
    /\ store \in {NoRecord, NewRecord(Str(InitialCursor))}
    /\ maxApplied = IF store.present THEN store.since_id_num ELSE 0
    /\ pc = [i \in Invs |-> IF i = 1 THEN "init" ELSE "idle"]
    /\ ExecInit
    /\ ProbeInit

\* the steps of execute leave the outcome of the constructor as it is
Executes ==
    /\ NextExec
    /\ pc[1] # "init"

NextStart ==
    \/ Construct
    \/ Executes

SpecStart == InitStart /\ [][NextStart]_vars

(***************************************************************************)
(* ErrorHandler on its own: handle_error for the failures of one           *)
(* operation, attempt after attempt as in execute_with_retry, and          *)
(* calculate_backoff_delay called directly.                                *)
(***************************************************************************)
MaxAttempt == 7
MaxBackoffAttempt == 9

KnownWords == RateLimitWords \cup TransientWords \cup FatalWords

\* str(e): no keyword, one, or two of them
Messages == {{}} \cup {{a, b} : a, b \in KnownWords}

\* random.uniform(JITTER_MIN, JITTER_MAX), in tenths
RetryJitters == {1, 2, 3}

BackoffAttempts == (0 .. MaxBackoffAttempt) \cup {FloatMaxExp - 1, FloatMaxExp}

InitRetry ==
    /\ Parked
    /\ failure \in Messages
    /\ attempt = 0
    /\ decision = NoDecision
    /\ prevWait = -1
    /\ backoff = NoBackoff
    /\ observed = NoObserved
    /\ awaited = NoAwaited

\* handle_error(e, attempt, context) for the next failure of the operation
Decide ==
    /\ attempt <= MaxAttempt
    /\ ~backoff.called
    /\ \E j \in RetryJitters : \E d \in {handle_error(failure, attempt, j)} :
         decision' = [made |-> TRUE, attempt |-> attempt, jitter |-> j,
                      should_retry |-> d.should_retry, wait |-> d.wait,
                      classification |-> d.classification]
    /\ prevWait' = IF decision.made THEN decision.wait ELSE -1
    /\ attempt' = attempt + 1
    /\ UNCHANGED <<failure, backoff, callVars, parkedVars>>

\* calculate_backoff_delay(attempt, base_delay, max_delay) with float delays
Backoff ==
    /\ ~decision.made
    /\ \E a \in BackoffAttempts, base \in {BASE_DELAY, 5}, j \in RetryJitters :
         backoff' = [called |-> TRUE, attempt |-> a, base |-> base, cap |-> MAX_DELAY,
                     jitter |-> j, raised |-> Overflows(a),
                     delay |-> IF Overflows(a) THEN 0 ELSE Delay(a, base, MAX_DELAY),
                     value |-> IF Overflows(a) THEN 0
                               ELSE calculate_backoff_delay(a, base, MAX_DELAY, j)]
    /\ UNCHANGED <<failure, attempt, decision, prevWait, callVars, parkedVars>>

NextRetry ==
    \/ Decide
    \/ Backoff

SpecRetry == InitRetry /\ [][NextRetry]_vars

(***************************************************************************)
(* RateLimitManager on its own: parse_rate_limit_headers and               *)
(* wait_if_needed called in any order, each some time after the call       *)
(* before it returned.                                                     *)
(***************************************************************************)
MaxCalls == 3

\* the time between the return of a call and the next call, in milliseconds
Gaps == {0, 400, 1500}

\* x-rate-limit-reset relative to the time of the response, in seconds
ResetOffsets == {-1, 1, 400}

\* response.headers at time t: the three headers as integers, with limit 10
\* and 0, 2 or 3 requests remaining; one or all of them missing; one of them
\* not an integer
HeaderSets(t) ==
    {[limit |-> Num(10), remaining |-> Num(n), reset |-> Num(IntTime(t) + k)] :
        n \in {0, 2, 3}, k \in ResetOffsets}
    \cup {[limit |-> Missing, remaining |-> Num(2), reset |-> Num(IntTime(t) + 1)],
          [limit |-> Num(10), remaining |-> Missing, reset |-> Num(IntTime(t) + 1)],
          [limit |-> Num(10), remaining |-> Num(2), reset |-> Missing],
          [limit |-> Missing, remaining |-> Missing, reset |-> Missing],
          [limit |-> Bad, remaining |-> Num(2), reset |-> Num(IntTime(t) + 1)],
          [limit |-> Num(10), remaining |-> Bad, reset |-> Num(IntTime(t) + 1)],
          [limit |-> Num(10), remaining |-> Num(2), reset |-> Bad]}

\* int(headers.get(name, 0)) of a header that is not malformed
HeaderInt(f) == IF f.kind = "missing" THEN 0 ELSE f.v

\* a parse that keeps the fallback it returns as current_status
ParseKeepsFallback(limit, remaining, reset, cur, t) ==
    LET parsed == parse_rate_limit_headers([limit |-> HeaderInt(limit),
                                            remaining |-> HeaderInt(remaining),
                                            reset |-> HeaderInt(reset)], t)
    IN  IF "bad" \in {limit.kind, remaining.kind, reset.kind}
        THEN [returned |-> Fallback(t), current |-> Fallback(t)]
        ELSE [returned |-> parsed, current |-> parsed]

\* parse_rate_limit_headers(headers) at time t with current_status cur: the
\* status returned and the new current_status; int() of a malformed header
\* raises ValueError, which the except clause answers with the fallback
ParseHeaders(limit, remaining, reset, cur, t) ==
    IF "bad" \in {limit.kind, remaining.kind, reset.kind}
    THEN [returned |-> Fallback(t), current |-> cur]
    ELSE [returned |->
              parse_rate_limit_headers([limit |-> HeaderInt(limit),
                                        remaining |-> HeaderInt(remaining),
                                        reset |-> HeaderInt(reset)], t),
          current |->
              parse_rate_limit_headers([limit |-> HeaderInt(limit),
                                        remaining |-> HeaderInt(remaining),
                                        reset |-> HeaderInt(reset)], t)]

governorIdleVars ==
    <<storeVars, upstream, batch_size, started, metricVars, next_token, page_count,
      pageVars, status, envVars, guardTripped, lastHeaders, escaped, stopReason, retryVars,
      managerVars, request, handlerVars>>

InitGovernor ==
    /\ Parked
    /\ failure = {}
    /\ attempt = 0
    /\ decision = NoDecision
    /\ prevWait = -1
    /\ backoff = NoBackoff
    /\ observed = NoObserved
    /\ awaited = NoAwaited

CallsLeft == observed.calls + awaited.calls < MaxCalls

\* parse_rate_limit_headers(headers)
ObserveHeaders ==
    /\ CallsLeft
    /\ \E t \in {now + d : d \in Gaps} : \E h \in HeaderSets(t) :
         \E r \in {ParseHeaders(h.limit, h.remaining, h.reset, current_status, t)} :
           /\ observed' = [called |-> TRUE, calls |-> observed.calls + 1,
                           limit |-> h.limit, remaining |-> h.remaining,
                           reset |-> h.reset, at |-> t, raised |-> FALSE,
                           returned |-> r.returned]
           /\ current_status' = r.current
           /\ now' = t
    /\ UNCHANGED <<last_request_time, awaited, governorIdleVars>>

\* wait_if_needed(force)
Await ==
    /\ CallsLeft
    /\ \E t \in {now + d : d \in Gaps}, force \in BOOLEAN :
         \E r \in {wait_if_needed(current_status, last_request_time, t, force)} :
           /\ awaited' = [called |-> TRUE, calls |-> awaited.calls + 1, force |-> force,
                          at |-> t, slept |-> r.wait, lrtAfter |-> r.lrt,
                          status |-> current_status, lrt |-> last_request_time,
                          prevEnd |-> IF awaited.called THEN awaited.at + awaited.slept
                                      ELSE -1]
           /\ now' = r.t
           /\ last_request_time' = r.lrt
    /\ UNCHANGED <<current_status, observed, governorIdleVars>>

NextGovernor ==
    \/ ObserveHeaders
    \/ Await

SpecGovernor == InitGovernor /\ [][NextGovernor]_vars

(***************************************************************************)
(* CheckpointManager on its own: recover_from_corruption on a table that   *)
(* may hold a record nobody validated, validate_checkpoint and             *)
(* handle_checkpoint_conflict.                                             *)
(***************************************************************************)
Repeated(n, c) == [k \in 1..n |-> c]

\* since_id values with no more than three characters: empty, not numeric,
\* zero, negative, positive, and positive as int() also reads it
ShortCursors ==
    {<<>>, <<"a">>, <<"1", "2", "a">>, <<"-">>, <<"_", "5">>, <<"0">>, <<"0", "0">>,
     <<"-", "5">>, <<"5">>, <<"0", "0", "7">>, Str(InitialCursor),
     <<"+", "5">>, <<" ", "5">>, <<"5", "_", "0">>}

\* and positive ones of 10 and of 26 digits
CursorStrings == ShortCursors \cup {<<"1">> \o Repeated(9, "0"), <<"1">> \o Repeated(25, "0")}

\* an item of the table that update_checkpoint_atomic did not put
ForeignRecord(since_id) ==
    [present |-> TRUE, since_id |-> since_id, has_num |-> FALSE, since_id_num |-> 0]

StoredRecords ==
    {NoRecord, NewRecord(Str(InitialCursor))} \cup {ForeignRecord(s) : s \in ShortCursors}

InitManager ==
    /\ StoreInit
    /\ store \in StoredRecords
    /\ maxApplied = 0
    /\ pc = [i \in Invs |-> IF i = 1 THEN "recover" ELSE "idle"]
    /\ ExecInit
    /\ ProbeInit
    /\ upstream = "slow"
    /\ batch_size = DEFAULT_BATCH_SIZE

managerIdleVars ==
    <<storeVars, execVars, stopReason, retryVars, callVars, secret, request, handlerVars>>

\* validate_checkpoint(since_id)
Validate ==
    /\ ~validated.called
    /\ ~resolved.called
    /\ \E since_id \in CursorStrings :
         validated' = [called |-> TRUE, since_id |-> since_id,
                       result |-> validate_checkpoint(since_id)]
    /\ UNCHANGED <<resolved, managerIdleVars>>

\* handle_checkpoint_conflict(attempted_id, current_id)
Resolve ==
    /\ ~validated.called
    /\ ~resolved.called
    /\ \E attempted_id \in ShortCursors,
          current_id \in {NoneStr} \cup {Some(c) : c \in ShortCursors} :
         resolved' = [called |-> TRUE, attempted_id |-> attempted_id,
                      current_id |-> current_id,
                      result |-> handle_checkpoint_conflict(attempted_id, current_id)]
    /\ UNCHANGED <<validated, managerIdleVars>>

NextManager ==
    \/ RecoverRead(1) /\ UNCHANGED <<execVars, probeVars, handlerVars>>
    \/ RecoverDelete(1) /\ UNCHANGED <<execVars, probeVars, handlerVars>>
    \/ Validate
    \/ Resolve

SpecManager == InitManager /\ [][NextManager]_vars

(***************************************************************************)
(* index.py: the handler the optimized poller replaces.  Its invocations   *)
(* may overlap each other and an invocation of the optimized poller, on    *)
(* the same table.                                                         *)
(***************************************************************************)
\* BATCH_SIZE of the environment
BATCH_SIZE == 2

\* what search() may return: the transformed tweets, newest first or not
LegacyPages ==
    {<<Str(120)>>, <<Str(150), Str(120), Str(130)>>, <<Str(160)>>}

\* since_id is an exclusive lower bound of the search; [] when there is no
\* tweet or the calls failed
LegacyResults(since_id) ==
    {<<>>} \cup
    {r \in LegacyPages :
        Truthy(since_id) =>
            \A j \in DOMAIN r : ParseInt(r[j]).val > ParseInt(since_id.v).val}

\* the item update_checkpoint_atomic of index.py puts: no since_id_num
LegacyRecord(since_id) == ForeignRecord(since_id)

\* a put without ConditionExpression
LegacyAlwaysPut(rec, expected_since_id) == rec = rec

\* ConditionExpression of update_checkpoint_atomic of index.py:
\* Attr('since_id').eq(expected_since_id) when a since_id was read,
\* Attr('id').not_exists() otherwise
LegacyCondition(rec, expected_since_id) ==
    IF Truthy(expected_since_id)
    THEN rec.present /\ rec.since_id = expected_since_id.v
    ELSE ~rec.present

\* a handler that goes on with the next batch when an invoke raises
InvokeFailureIgnored(raised, i, size) ==
    IF i >= size THEN "update" ELSE "yield"

\* the for loop of handler over _search_batches: an invoke that raises
\* leaves the loop for the except clause, which re-raises; when the
\* generator is resumed after its last batch it calls update_checkpoint_atomic
AfterInvoke(raised, i, size) ==
    IF raised THEN "raised"
    ELSE IF i >= size THEN "update" ELSE "yield"

\* last_id(): the get_item may raise, which the handler re-raises
LegacyRead(i) ==
    /\ legacy[i].pc = "start"
    /\ \E failed \in {FALSE, TRUE} :
         /\ failed => faults < MaxStoreFaults
         /\ faults' = IF failed THEN faults + 1 ELSE faults
         /\ legacy' = [legacy EXCEPT ![i] =
                         IF failed THEN [@ EXCEPT !.pc = "raised"]
                         ELSE [@ EXCEPT !.pc = "search", !.since_id = ReadCheckpoint(store)]]
    /\ UNCHANGED <<store, pc, since, arg, prev, advCount, hist, maxApplied>>
    /\ UNCHANGED <<execVars, probeVars, retrying, image>>

\* search(SEARCH_TEXT, since_id); an empty result ends _search_batches
LegacySearch(i) ==
    /\ legacy[i].pc = "search"
    /\ \E result \in LegacyResults(legacy[i].since_id) :
         legacy' = [legacy EXCEPT ![i] =
                      IF result = <<>> THEN [@ EXCEPT !.pc = "done"]
                      ELSE [@ EXCEPT !.pc = "yield", !.all_tweets = result, !.offset = 0]]
    /\ UNCHANGED <<storeVars, execVars, probeVars, retrying, image>>

\* LAMBDA.invoke of the batch yielded
LegacyInvoke(i) ==
    /\ legacy[i].pc = "yield"
    /\ \E raised \in {FALSE, TRUE} :
         legacy' = [legacy EXCEPT ![i] =
                      [@ EXCEPT !.pc = AfterInvoke(raised, legacy[i].offset + BATCH_SIZE,
                                                   Len(legacy[i].all_tweets)),
                                !.offset = IF raised THEN @ ELSE @ + BATCH_SIZE,
                                !.invoked = IF raised THEN @ ELSE @ + 1]]
    /\ UNCHANGED <<storeVars, execVars, probeVars, retrying, image>>

\* update_checkpoint_atomic(str(newest_id), since_id) of index.py: a
\* ConditionalCheckFailedException is printed, another ClientError raised
LegacyPut(i) ==
    /\ legacy[i].pc = "update"
    /\ \E new_since_id \in {Str(MaxNum(legacy[i].all_tweets))} :
         \/ /\ LegacyCondition(store, legacy[i].since_id)
            /\ store' = LegacyRecord(new_since_id)
            /\ legacy' = [legacy EXCEPT ![i] =
                            [@ EXCEPT !.pc = "done", !.put = "applied", !.before = store]]
            /\ UNCHANGED faults
         \/ /\ ~LegacyCondition(store, legacy[i].since_id)
            /\ legacy' = [legacy EXCEPT ![i] =
                            [@ EXCEPT !.pc = "done", !.put = "skipped", !.before = store]]
            /\ UNCHANGED <<store, faults>>
         \/ /\ faults < MaxStoreFaults
            /\ faults' = faults + 1
            /\ legacy' = [legacy EXCEPT ![i] =
                            [@ EXCEPT !.pc = "raised", !.put = "raised", !.before = store]]
            /\ UNCHANGED store
    /\ UNCHANGED <<pc, since, arg, prev, advCount, hist, maxApplied>>
    /\ UNCHANGED <<execVars, probeVars, retrying, image>>

\* the table is empty or holds the record of one of the two writers
InitLegacy ==
    /\ StoreInit
    /\ store \in {NoRecord, NewRecord(Str(InitialCursor)), LegacyRecord(Str(InitialCursor))}
    /\ maxApplied = IF store.present THEN ParseInt(store.since_id).val ELSE 0
    /\ pc = [i \in Invs |-> IF i = 1 THEN "recover" ELSE "idle"]
    /\ ExecInit
    /\ ProbeInit
    /\ upstream = "slow"
    /\ batch_size = DEFAULT_BATCH_SIZE

\* the newest ids of the pages of the optimized poller
OptimizedNums == {125, 170}

\* the steps of the optimized poller on the table
Optimized ==
    /\ UNCHANGED <<execVars, probeVars, handlerVars>>
    /\ \/ RecoverRead(1)
       \/ RecoverDelete(1)
       \/ /\ pc[1] = "loop"
          /\ advCount[1] < MaxAdvances
          /\ \E n \in OptimizedNums : UpdRead(1, Str(n), "loop")
       \/ UpdCas(1, "loop")

NextLegacy ==
    \/ Optimized
    \/ \E i \in Invs : LegacyRead(i)
    \/ \E i \in Invs : LegacySearch(i)
    \/ \E i \in Invs : LegacyInvoke(i)
    \/ \E i \in Invs : LegacyPut(i)

SpecLegacy == InitLegacy /\ [][NextLegacy]_vars

(***************************************************************************)
(* ErrorHandler.execute_with_retry(func): retrying.attempt is the loop     *)
(* variable, retrying.calls the calls of func made, retrying.errors the    *)
(* messages of the exceptions func raised, retrying.decided the            *)
(* wait_seconds of the decisions taken, retrying.waits the sleeps made     *)
(* and retrying.result the number of the call whose result was returned.   *)
(***************************************************************************)
retryingIdleVars == <<storeVars, execVars, probeVars, legacy, image>>

InitRetrying ==
    /\ Parked
    /\ failure = {}
    /\ attempt = 0
    /\ decision = NoDecision
    /\ prevWait = -1
    /\ backoff = NoBackoff
    /\ observed = NoObserved
    /\ awaited = NoAwaited

\* a loop that gives up one attempt early
FinalAttemptEarly(n) == n >= MAX_RETRIES - 1

\* if attempt == self.MAX_RETRIES
FinalAttempt(n) == n = MAX_RETRIES

\* return func(*args, **kwargs)
FuncReturns ==
    /\ retrying.outcome = ""
    /\ retrying.attempt <= MAX_RETRIES
    /\ retrying' = [retrying EXCEPT !.outcome = "returned",
                                     !.calls = @ + 1,
                                     !.result = retrying.calls + 1]
    /\ UNCHANGED retryingIdleVars

\* func raises: the except clause re-raises on the final attempt and when
\* handle_error says not to retry, and sleeps wait_seconds otherwise
FuncRaises ==
    /\ retrying.outcome = ""
    /\ retrying.attempt <= MAX_RETRIES
    /\ \E msg \in ErrorMessages, jitter \in JitterTenths :
         LET d == handle_error(msg, retrying.attempt, jitter)
             called == [retrying EXCEPT !.calls = @ + 1, !.errors = Append(@, msg)]
         IN  retrying' =
               IF FinalAttempt(retrying.attempt)
               THEN [called EXCEPT !.outcome = "raised"]
               ELSE IF ~d.should_retry
               THEN [called EXCEPT !.outcome = "raised", !.decided = Append(@, d.wait)]
               ELSE [called EXCEPT !.decided = Append(@, d.wait),
                                   !.waits = IF d.wait > 0 THEN Append(@, d.wait) ELSE @,
                                   !.attempt = @ + 1]
    /\ UNCHANGED retryingIdleVars

NextRetrying ==
    \/ FuncReturns
    \/ FuncRaises

SpecRetrying == InitRetrying /\ [][NextRetrying]_vars

(***************************************************************************)
(* The handler of rekognition/index.py, one invocation: image.pc is the    *)
(* statement it stands at ("start", "moderation", "faces", "done"),        *)
(* image.retries its variable retries, image.raised the exceptions the     *)
(* two service calls raised and image.slept the sleeps made, in            *)
(* hundredths of a second.                                                 *)
(***************************************************************************)
imageIdleVars == <<storeVars, execVars, probeVars, retrying, legacy>>

InitImage ==
    /\ Parked
    /\ failure = {}
    /\ attempt = 0
    /\ decision = NoDecision
    /\ prevWait = -1
    /\ backoff = NoBackoff
    /\ observed = NoObserved
    /\ awaited = NoAwaited

\* the exceptions answered with 'Fail' at once
TerminalErrors ==
    {"InvalidParameterException", "ImageTooLargeException", "InvalidImageFormatException"}

\* and those of the two clauses that count a retry
RetriedErrors == {"ProvisionedThroughputExceededException", "Exception"}

\* len(mod_response["ModerationLabels"]), len(rek_response["FaceDetails"])
Counts == 0..2

RECURSIVE Pow(_, _)
Pow(b, n) == IF n = 0 THEN 1 ELSE b * Pow(b, n - 1)

\* a sleep that grows by the same amount with every retry
SleepLinear(retries) == 2 * retries * 15

\* pow(2, retries) * 0.15, in hundredths of a second
SleepOf(retries) == Pow(2, retries) * 15

\* a test of the labels that never finds one
FlaggedNever(labels) == labels # labels

\* len(mod_response.get("ModerationLabels", [])) != 0
Flagged(labels) == labels # 0

\* a clause that counts a retry: retries = retries + 1, the sleep, and
\* 'Fail' when retries == 5
CountRetry(kind) ==
    LET counted == [image EXCEPT !.retries = @ + 1,
                                 !.raised = Append(@, kind),
                                 !.slept = Append(@, SleepOf(image.retries + 1))]
    IN  IF counted.retries = 5
        THEN [counted EXCEPT !.pc = "done", !.result = "Fail"]
        ELSE counted

\* event.get("image_url") and requests.get
Download ==
    /\ image.pc = "start"
    /\ \E has_url \in BOOLEAN, fetched \in BOOLEAN :
         image' =
           IF ~has_url
           THEN [image EXCEPT !.pc = "done", !.result = "Fail"]
           ELSE IF ~fetched
           THEN [image EXCEPT !.has_url = TRUE, !.pc = "done", !.result = "Fail"]
           ELSE [image EXCEPT !.has_url = TRUE, !.downloaded = TRUE,
                              !.pc = "moderation", !.retries = 0]
    /\ UNCHANGED imageIdleVars

\* one turn of the first loop: rek.detect_moderation_labels
Moderation ==
    /\ image.pc = "moderation"
    /\ image.retries < 5
    /\ LET called == [image EXCEPT !.moderation_calls = @ + 1]
       IN  \/ \E labels \in Counts :
                image' =
                  IF Flagged(labels)
                  THEN [called EXCEPT !.moderated = TRUE, !.labels = labels,
                                      !.pc = "done", !.result = "Moderated"]
                  ELSE [called EXCEPT !.moderated = TRUE, !.labels = labels,
                                      !.pc = "faces", !.retries = 0]
           \/ \E kind \in TerminalErrors :
                image' = [called EXCEPT !.raised = Append(@, kind),
                                        !.pc = "done", !.result = "Fail"]
           \/ \E kind \in RetriedErrors :
                image' = [CountRetry(kind) EXCEPT !.moderation_calls = @ + 1]
    /\ UNCHANGED imageIdleVars

\* one turn of the second loop: rek.detect_faces
DetectFaces ==
    /\ image.pc = "faces"
    /\ image.retries < 5
    /\ LET called == [image EXCEPT !.face_calls = @ + 1]
       IN  \/ \E faces \in Counts :
                image' = [called EXCEPT !.faces = faces, !.pc = "done",
                                        !.result = IF faces > 0 THEN "Succeed" ELSE "Fail"]
           \/ \E kind \in TerminalErrors :
                image' = [called EXCEPT !.raised = Append(@, kind),
                                        !.pc = "done", !.result = "Fail"]
           \/ \E kind \in RetriedErrors :
                image' = [CountRetry(kind) EXCEPT !.face_calls = @ + 1]
    /\ UNCHANGED imageIdleVars

NextImage ==
    \/ Download
    \/ Moderation
    \/ DetectFaces

\* the calls of the handler return or raise: no statement of it waits for
\* anything but them and the sleeps
SpecImage == InitImage /\ [][NextImage]_vars /\ WF_vars(NextImage)

(***************************************************************************)
(* Properties of the checkpoint store.                                     *)
(***************************************************************************)
NumOf(s) == ParseInt(s).val

LastPut == hist[Len(hist)]

\* C1: in any interleaving of advance calls, each call returns true iff no
\* record existed or its value is numerically greater than the cursor stored
\* when the call is applied, and the stored cursor is the numeric maximum of
\* the values of all the calls applied so far.
C1_AdvanceTrueIffNumericallyGreater ==
    /\ hist # <<>> =>
         (LastPut.ok <=> (\/ ~LastPut.before.present
                          \/ NumOf(LastPut.before.since_id) < NumOf(LastPut.val)))
    /\ maxApplied > 0 => (store.present /\ store.since_id = Str(maxApplied))

\* an advance that two invocations raced for succeeded on a cursor that is
\* lexically greater and numerically smaller than its value
C1_Witness ==
    /\ Len(hist) = 2
    /\ hist[1].inv # hist[2].inv
    /\ hist[2].ok
    /\ hist[2].before.present
    /\ LexLess(hist[2].val, hist[2].before.since_id)
    /\ store.since_id = hist[2].val

ValidStored(rec) == rec.present /\ validate_checkpoint(rec.since_id)

\* C2: the stored cursor never changes to a numerically smaller value, and a
\* valid stored cursor is never removed: from a valid cursor the store goes
\* only to a strictly greater valid cursor.
C2_StoredCursorOnlyAdvances ==
    [][(ValidStored(store) /\ store' # store) =>
          (ValidStored(store') /\ NumOf(store'.since_id) > NumOf(store.since_id))]_vars

\* the history shows two advance calls of different invocations, with
\* different candidates, both greater than the cursor c that the table held
\* and that both had read as previous_id, applied one after the other
RacingPair ==
    /\ Len(hist) = 2
    /\ hist[1].inv # hist[2].inv
    /\ hist[1].val # hist[2].val
    /\ hist[1].before.present
    /\ hist[1].seen = Some(hist[1].before.since_id)
    /\ hist[2].seen = hist[1].seen
    /\ NumOf(hist[1].val) > NumOf(hist[1].before.since_id)
    /\ NumOf(hist[2].val) > NumOf(hist[1].before.since_id)

\* C3 as stated: of two racing advance calls with different candidates, both
\* greater than the stored cursor, exactly one returns true.
C3_ExactlyOneRacingAdvanceSucceeds ==
    RacingPair => (hist[1].ok # hist[2].ok)

\* C3 as amended: the call applied first returns true, the second returns
\* true iff its candidate is numerically greater than the first's, and the
\* stored cursor ends as the greater of the two candidates.
C3_RacingAdvancesSucceedInAscendingOrder ==
    RacingPair =>
        /\ hist[1].ok
        /\ hist[2].ok <=> (NumOf(hist[2].val) > NumOf(hist[1].val))
        /\ store.since_id = Str(Max2(NumOf(hist[1].val), NumOf(hist[2].val)))

\* the greater candidate was applied first and the smaller one rejected
C3_Witness ==
    /\ RacingPair
    /\ NumOf(hist[1].val) > NumOf(hist[2].val)
    /\ ~hist[2].ok

(***************************************************************************)
(* Properties of one invocation of execute.                                *)
(***************************************************************************)
\* C4: every invocation of execute eventually terminates and returns its
\* summary, whatever the upstream, the sink and the store answer, when every
\* single call returns and the clock advances.
C4_ExecuteTerminates == <>(pc[1] = "done" /\ status # 0)

\* an invocation that stopped although a continuation token was at hand
C4_Witness ==
    /\ pc[1] = "done"
    /\ guardTripped
    /\ next_token # 0
    /\ now - started >= Sec(MAX_EXECUTION_TIME)

\* C5: execute always ends with a summary: statusCode 500 exactly when an
\* exception reached its except clause and statusCode 200 otherwise, and an
\* exception raised below it is always turned into the 500 summary.
C5_SummaryAlwaysReturned ==
    /\ [](pc[1] = "done" => status = IF escaped THEN 500 ELSE 200)
    /\ [](pc[1] # "done" => status = 0 /\ ~escaped)
    /\ [][pc[1] = "raised" => pc'[1] = "done" /\ status' = 500 /\ escaped']_vars

\* a store failure after a failed dispatch ends in the 500 summary
C5_Witness ==
    /\ pc[1] = "done"
    /\ status = 500
    /\ escaped
    /\ dispatchFailures > 0

\* C6: an upstream call is issued only when the check at the head of the
\* iteration found the elapsed time under 840 s and the item count under
\* 1000; an iteration that starts at or over a limit ends the invocation,
\* and no call follows it.
C6_NoCallOnceGuardTrips ==
    /\ [][(api_calls_made' # api_calls_made \/ fetchFailures' # fetchFailures) =>
            /\ now - started < Sec(MAX_EXECUTION_TIME)
            /\ tweets_processed < MAX_TWEETS_PER_EXECUTION
            /\ ~guardTripped]_vars
    /\ [][(/\ pc[1] = "loop"
           /\ \/ now - started >= Sec(MAX_EXECUTION_TIME)
              \/ tweets_processed >= MAX_TWEETS_PER_EXECUTION) =>
            guardTripped' /\ pc'[1] = "done"]_vars
    /\ [](guardTripped => pc[1] = "done")

\* the item ceiling stopped an invocation that held a continuation token
C6_Witness ==
    /\ guardTripped
    /\ tweets_processed >= MAX_TWEETS_PER_EXECUTION
    /\ now - started < Sec(MAX_EXECUTION_TIME)
    /\ next_token # 0
    /\ next_token = api_calls_made

\* C7: a page of n items is dispatched in ceil(n/b) slices, each of b items
\* except the last, which has the remainder, and the slices in dispatch
\* order make up the page, nothing dropped, duplicated or reordered.
C7_PageSlicedInOrder ==
    pc[1] \in {"dispatch", "upd_cas", "resume"} =>
      /\ Len(sentItems) = Min2(offset, Len(tweet_page))
      /\ sentItems = SubSeq(tweet_page, 1, Len(sentItems))
      /\ \A k \in 1..Len(sliceLens) :
           sliceLens[k] = IF k * batch_size <= Len(tweet_page) THEN batch_size
                          ELSE Len(tweet_page) - (k - 1) * batch_size
      /\ \A k \in 1..Len(sliceLens) : sliceLens[k] >= 1
      /\ offset >= Len(tweet_page) =>
           /\ Len(sliceLens) = (Len(tweet_page) + batch_size - 1) \div batch_size
           /\ sentItems = tweet_page

\* a page of 30 items went out as 25 + 5
C7_Witness ==
    /\ pc[1] = "upd_cas"
    /\ batch_size = 25
    /\ Len(tweet_page) = 30
    /\ sliceLens = <<25, 5>>

\* C8: each non-empty page gets exactly one advance call, made after a
\* dispatch was attempted for each of its slices, with the numerically
\* greatest id of the page; whatever it returns, no other follows for that
\* page.
C8_OneAdvancePerPage ==
    /\ [](casCalls <= 1)
    /\ [](pc[1] = "upd_cas" =>
            /\ casCalls = 0
            /\ sentItems = tweet_page
            /\ \E j \in DOMAIN tweet_page : arg[1] = tweet_page[j]
            /\ \A j \in DOMAIN tweet_page : NumOf(tweet_page[j]) <= NumOf(arg[1]))
    /\ [](pc[1] = "resume" => casCalls = 1)
    /\ [][pc[1] = "dispatch" /\ pc'[1] # "dispatch" =>
            offset >= Len(tweet_page) /\ pc'[1] = "upd_cas"]_vars
    /\ [][pc[1] = "resume" => pc'[1] \in {"loop", "done"}]_vars

\* the advance of a page whose greatest id is not its greatest string
\* returned false and the generator is about to go on
C8_Witness ==
    /\ pc[1] = "resume"
    /\ casCalls = 1
    /\ tweet_page = <<Str(9), Str(10)>>
    /\ LastPut.inv = 1
    /\ LastPut.val = Str(10)
    /\ ~LastPut.ok

\* C9: a dispatch that fails adds one to the error counter and nothing to
\* the item count, the next slice of the page is dispatched, the advance is
\* called with the page's greatest id, and pagination goes on with the next
\* page.
C9_FailedDispatchDoesNotAbortPage ==
    /\ [][failedSlices' = failedSlices + 1 =>
            /\ errors_encountered' = errors_encountered + 1
            /\ tweets_processed' = tweets_processed
            /\ pc'[1] = "dispatch"
            /\ offset' = offset + batch_size]_vars
    /\ [](failedSlices > 0 /\ pc[1] \in {"upd_cas", "resume"} =>
            /\ sentItems = tweet_page
            /\ Len(sliceLens) = (Len(tweet_page) + batch_size - 1) \div batch_size)
    /\ [](failedSlices > 0 /\ pc[1] = "upd_cas" => NumOf(arg[1]) = MaxNum(tweet_page))
    /\ [][failedSlices > 0 /\ pc[1] = "dispatch" /\ offset >= Len(tweet_page) =>
            pc'[1] = "upd_cas"]_vars
    /\ [][failedSlices > 0 /\ pc[1] = "resume" /\ resp_token # 0 =>
            pc'[1] = "loop" /\ next_token' = resp_token]_vars

\* the first slice of a page failed, the others went out, the advance was
\* made and there is a next page to ask for
C9_Witness ==
    /\ pc[1] = "resume"
    /\ failedSlices = 1
    /\ Len(sliceLens) = 4
    /\ batches_sent = 3
    /\ casCalls = 1
    /\ resp_token # 0

\* the telemetry observed last forbids a request
Throttled ==
    /\ lastHeaders.seen
    /\ \/ lastHeaders.remaining = 0
       \/ current_status.should_wait /\ now < Sec(lastHeaders.reset)

\* C10: should_continue_requests is false iff the telemetry observed last
\* has remaining = 0, or set the proactive wait and the time is before its
\* reset; it is true otherwise, also when nothing was observed yet; and the
\* loop issues a call only when it is true.
C10_CanProceedIffNotThrottled ==
    /\ [](should_continue_requests(current_status, now) <=> ~Throttled)
    /\ [](current_status.set <=> lastHeaders.seen)
    /\ [][(api_calls_made' # api_calls_made \/ fetchFailures' # fetchFailures) =>
            ~Throttled]_vars

\* telemetry with remaining = 0 was just observed and the loop is back at
\* its head
C10_Witness ==
    /\ pc[1] = "loop"
    /\ lastHeaders.seen
    /\ lastHeaders.remaining = 0
    /\ api_calls_made = 1

\* C11: a call is issued only from a state in which should_continue_requests
\* is true; when the time guard lets the loop go on and the telemetry
\* forbids a request, the step taken issues no call, ends the pagination and
\* leaves statusCode 200; and after such an end no call is ever issued.
C11_NoCallWhenCannotProceed ==
    /\ [][CallIssued => should_continue_requests(current_status, now) /\ ~Throttled]_vars
    /\ [][(/\ pc[1] = "loop"
           /\ ~should_terminate(started, now, tweets_processed)
           /\ Throttled) =>
            /\ ~CallIssued
            /\ pc'[1] = "done"
            /\ stopReason' = "rate_limit"
            /\ status' = 200]_vars
    /\ [][stopReason = "rate_limit" => ~CallIssued /\ status' = 200]_vars

\* the pagination ended on should_continue_requests after two calls, the
\* second page handled, and the summary is the successful one
C11_Witness ==
    /\ stopReason = "rate_limit"
    /\ pc[1] = "done"
    /\ status = 200
    /\ api_calls_made = 2
    /\ checkpoint_updates >= 1
    /\ ~escaped

Retryable(classification) ==
    classification \in {"retryable_transient", "retryable_rate_limit"}

\* min(base * 2^n, 300 s) plus the jitter, in milliseconds
BackoffOf(base, n, jitter_tenths) ==
    CHOOSE w \in {Sec(d) + jitter_tenths * d * 100 : d \in {Min2(base * (2 ^ n), 300)}} : TRUE

\* C13: a decision at attempt >= 5, or for a non-retryable failure at any
\* attempt, is no retry with wait_seconds 0; a transient or rate limited
\* failure at attempt < 5 is retried with a positive wait_seconds, the
\* backoff delay of base 1 s (transient) or 5 s (rate limited); the
\* classification of the decision is classify_error of the failure.
C13_DecisionByClassAndAttempt ==
    decision.made =>
      /\ decision.classification = classify_error(failure)
      /\ (decision.attempt >= 5 \/ decision.classification = "non_retryable") =>
            ~decision.should_retry /\ decision.wait = 0
      /\ (decision.attempt < 5 /\ decision.classification = "retryable_transient") =>
            /\ decision.should_retry
            /\ decision.wait > 0
            /\ decision.wait = BackoffOf(1, decision.attempt, decision.jitter)
      /\ (decision.attempt < 5 /\ decision.classification = "retryable_rate_limit") =>
            /\ decision.should_retry
            /\ decision.wait > 0
            /\ decision.wait = BackoffOf(5, decision.attempt, decision.jitter)

\* the sixth failure of a rate limited operation: no retry, after a retry
\* at attempt 4 that waited 80 s and its jitter
C13_Witness ==
    /\ decision.made
    /\ decision.attempt = 5
    /\ decision.classification = "retryable_rate_limit"
    /\ ~decision.should_retry
    /\ decision.wait = 0
    /\ prevWait >= Sec(80)

\* C14: for the failures of one operation that are all transient, the
\* decisions at attempts 0 to 4 are retries, each wait_seconds greater than
\* that of the attempt before whatever the two jitters are, and the decision
\* at attempt 5 is no retry.
C14_TransientWaitsIncrease ==
    (decision.made /\ classify_error(failure) = "retryable_transient") =>
      /\ decision.attempt <= 4 =>
            /\ decision.should_retry
            /\ decision.wait > prevWait
            /\ decision.attempt > 0 => prevWait > 0
      /\ decision.attempt = 5 => ~decision.should_retry

\* attempt 4 with the least jitter, after attempt 3 with the greatest
C14_Witness ==
    /\ decision.made
    /\ classify_error(failure) = "retryable_transient"
    /\ decision.attempt = 4
    /\ decision.jitter = 1
    /\ decision.wait = 17600
    /\ prevWait = 10400

\* the keywords the claim names
ClaimRetryableWords ==
    {"timeout", "connection", "429", "rate limit", "500", "502", "503", "504", "throttl"}

ClaimFatalWords == {"401", "403", "400", "invalid"}

\* C15 as stated: a message with one of the retryable keywords is classified
\* retryable, a message with "401", "403", "400" or "invalid" is classified
\* non-retryable, and so is a message with no keyword.
C15_FatalKeywordAlwaysFatal ==
    decision.made =>
      /\ failure \cap ClaimRetryableWords # {} => Retryable(decision.classification)
      /\ failure \cap ClaimFatalWords # {} => decision.classification = "non_retryable"
      /\ failure \cap KnownWords = {} => decision.classification = "non_retryable"

\* C15: a message with one of the retryable keywords is classified
\* retryable, whatever else it holds; a message with "401", "403", "400" or
\* "invalid" and no retryable keyword is classified non-retryable, and so is
\* a message with no keyword.
C15_RetryableKeywordsWin ==
    decision.made =>
      /\ failure \cap ClaimRetryableWords # {} => Retryable(decision.classification)
      /\ (/\ failure \cap ClaimFatalWords # {}
          /\ failure \cap (RateLimitWords \cup TransientWords) = {}) =>
            decision.classification = "non_retryable"
      /\ failure \cap KnownWords = {} => decision.classification = "non_retryable"

\* a message with "timeout" and "401" was classified
C15_Witness ==
    /\ decision.made
    /\ failure = {"timeout", "401"}
    /\ decision.classification = "retryable_transient"

\* C16: calculate_backoff_delay returns, for every attempt >= 0, a value
\* that is d plus 10% to 30% of d, d = min(base * 2^attempt, cap): not below
\* d, not above 1.5 cap, and d does not decrease with the attempt.
C16_BackoffWithinBounds ==
    backoff.called =>
      /\ ~backoff.raised
      /\ backoff.delay = Delay(backoff.attempt, backoff.base, backoff.cap)
      /\ backoff.value >= Sec(backoff.delay)
      /\ 10 * (backoff.value - Sec(backoff.delay)) >= Sec(backoff.delay)
      /\ 10 * (backoff.value - Sec(backoff.delay)) <= 3 * Sec(backoff.delay)
      /\ 2 * backoff.value <= 3 * Sec(backoff.cap)
      /\ Delay(backoff.attempt + 1, backoff.base, backoff.cap) >= backoff.delay

(***************************************************************************)
(* Properties of the rate limit manager.                                   *)
(***************************************************************************)
WellFormed ==
    /\ observed.limit.kind = "int"
    /\ observed.remaining.kind = "int"
    /\ observed.reset.kind = "int"

\* utilization = (limit - remaining) / limit >= 0.8
HighUtilization == 10 * (observed.limit.v - observed.remaining.v) >= 8 * observed.limit.v

\* C17: for headers with three integers and limit > 0 the status returned
\* has should_wait true and wait_seconds = max(0, reset - now), now in
\* whole seconds, exactly when the utilization is at least 0.8, and
\* should_wait false and wait_seconds 0 otherwise; it is the current status
\* from then on.
C17_ProactiveAtEightyPercent ==
    (observed.called /\ WellFormed /\ observed.limit.v > 0) =>
      /\ observed.returned.should_wait = HighUtilization
      /\ observed.returned.wait_seconds =
            IF HighUtilization
            THEN Max2(0, observed.reset.v - IntTime(observed.at))
            ELSE 0
      /\ observed.returned.remaining_requests = observed.remaining.v
      /\ observed.returned.limit = observed.limit.v
      /\ observed.returned.reset_time = observed.reset.v
      /\ current_status = observed.returned

\* headers with utilization exactly 0.8 and the reset 400 s ahead were
\* parsed, 400 ms into a second, and replaced an earlier status
C17_Witness ==
    /\ observed.called
    /\ observed.calls = 2
    /\ observed.limit = Num(10)
    /\ observed.remaining = Num(2)
    /\ observed.at = Sec(StartTime) + 400
    /\ observed.reset = Num(StartTime + 400)
    /\ current_status.should_wait
    /\ current_status.wait_seconds = 400

\* C18: headers of which one is missing or not an integer make
\* parse_rate_limit_headers return, without raising, the fallback status:
\* remaining 1, limit 1, reset 900 s from now, should_wait false.
C18_FallbackOnMissingOrMalformed ==
    (observed.called /\ ~WellFormed) =>
      /\ ~observed.raised
      /\ observed.returned = Fallback(observed.at)

\* max(0, reset_time - now) of the status wait_if_needed found, in seconds
TimeUntilReset == Max2(0, awaited.status.reset_time - IntTime(awaited.at))

\* min(wait_seconds, 300) of the status wait_if_needed found
CappedWait == Min2(awaited.status.wait_seconds, 300)

\* wait_if_needed came to the minimum interval and assigned last_request_time
FloorReturn == awaited.lrtAfter # awaited.lrt

\* C19: wait_if_needed returns the time it slept, which is not negative;
\* with remaining = 0 it sleeps max(0, reset - now); otherwise, with force
\* or should_wait, it sleeps min(wait_seconds, 300); where such a wait is 0
\* the minimum interval may be slept instead; and a wait other than the
\* minimum interval is never longer than the time until the reset.
C19_SleepsUntilResetOrProactive ==
    awaited.called =>
      /\ awaited.slept >= 0
      /\ now = awaited.at + awaited.slept
      /\ (awaited.status.set /\ awaited.status.remaining_requests = 0) =>
            \/ awaited.slept = Sec(TimeUntilReset)
            \/ TimeUntilReset = 0 /\ FloorReturn
      /\ (/\ awaited.status.set
          /\ awaited.status.remaining_requests # 0
          /\ (awaited.force \/ awaited.status.should_wait)) =>
            \/ awaited.slept = Sec(CappedWait)
            \/ CappedWait = 0 /\ FloorReturn
      /\ (awaited.status.set /\ ~FloorReturn) => awaited.slept <= Sec(TimeUntilReset)

\* neither the wait until the reset nor the proactive wait is due
NeitherWaitApplies ==
    /\ ~(/\ awaited.status.set
          /\ awaited.status.remaining_requests = 0
          /\ TimeUntilReset > 0)
    /\ ~(/\ awaited.status.set
          /\ (awaited.force \/ awaited.status.should_wait)
          /\ CappedWait > 0)

\* C20: a wait_if_needed call for which neither wait is due returns at
\* least 1 s after the wait_if_needed call before it returned, whether
\* headers have been parsed or not.
C20_OneSecondFloor ==
    (awaited.called /\ awaited.prevEnd >= 0 /\ NeitherWaitApplies) =>
      awaited.at + awaited.slept - awaited.prevEnd >= Sec(1)

(***************************************************************************)
(* Properties of the checkpoint manager.                                   *)
(***************************************************************************)
\* C21: recover_from_corruption on a valid stored cursor returns it and
\* leaves the table as it is; on an invalid one that it read it deletes the
\* record (when delete_item succeeds) and returns None; what it returns is
\* None or passes validate_checkpoint.
C21_RecoverKeepsValidDropsInvalid ==
    /\ [][(pc[1] = "recover" /\ pc'[1] # pc[1] /\ ValidStored(store) /\ faults' = faults) =>
            /\ pc'[1] = "loop"
            /\ since'[1] = Some(store.since_id)
            /\ store' = store]_vars
    /\ [][store' # store => ~ValidStored(store)]_vars
    /\ [][(pc[1] = "rec_delete" /\ pc'[1] # pc[1] /\ ~ValidStored(store)) =>
            /\ pc'[1] = "loop"
            /\ since'[1] = NoneStr
            /\ store' = IF faults' = faults THEN NoRecord ELSE store]_vars
    /\ [](pc[1] = "loop" => (since[1] = NoneStr \/ validate_checkpoint(since[1].v)))

\* C22: a get_item that fails makes get_last_checkpoint return None without
\* raising, and recover_from_corruption then returns None and leaves the
\* record as it is: the record goes only after a read that found it invalid.
C22_UnreadRecordNeverDeleted ==
    /\ [][(pc[1] = "recover" /\ faults' # faults) =>
            /\ pc'[1] = "rec_delete_unread"
            /\ since'[1] = since[1]
            /\ store' = store]_vars
    /\ [][(pc[1] = "rec_delete_unread" /\ pc'[1] # pc[1]) =>
            /\ pc'[1] = "loop"
            /\ since'[1] = NoneStr
            /\ store' = store]_vars

\* the since_id values that int() reads as an integer greater than 0
PositiveCursors ==
    {<<"5">>, <<"0", "0", "7">>, <<"1", "0", "0">>, <<"+", "5">>, <<" ", "5">>,
     <<"5", "_", "0">>, <<"1">> \o Repeated(9, "0"), <<"1">> \o Repeated(25, "0")}

\* C23: a put rejected by its condition makes update_checkpoint_atomic
\* return False: nothing is raised, the record stays as it was and no update
\* is counted; another ClientError of the put is raised through
\* _update_checkpoint to execute, with no second put, and execute returns
\* statusCode 500 without a further call, dispatch or store request.
C23_RejectionReturnsOtherFailureRaises ==
    /\ [][(pc[1] = "upd_cas" /\ pc'[1] # pc[1] /\ faults' = faults
             /\ ~AdvanceCondition(store, arg[1])) =>
            /\ pc'[1] = "resume"
            /\ store' = store
            /\ checkpoint_updates' = checkpoint_updates
            /\ ~escaped']_vars
    /\ [][(pc[1] = "upd_cas" /\ faults' # faults) =>
            /\ pc'[1] = "raised"
            /\ store' = store
            /\ casCalls' = casCalls + 1]_vars
    /\ [][pc[1] = "raised" =>
            /\ pc'[1] = "done"
            /\ escaped'
            /\ status' = 500
            /\ store' = store
            /\ casCalls' = casCalls
            /\ batches_sent' = batches_sent
            /\ ~CallIssued]_vars
    /\ [](escaped => (pc[1] = "done" /\ status = 500))

\* the put of the first page was rejected, the put of the second one failed
\* otherwise and the invocation ended with statusCode 500
C23_Witness ==
    /\ pc[1] = "done"
    /\ escaped
    /\ status = 500
    /\ hist # <<>>
    /\ ~hist[Len(hist)].ok
    /\ hist[Len(hist)].before = store

\* C26: the call that follows a page carries the next_token of that page's
\* response as pagination_token and the since_id execute got at its start;
\* the call that follows a call that raised carries the same
\* pagination_token and since_id; and after a response without data or
\* without next_token there is no further call.
C26_NextCallCarriesPageToken ==
    /\ [][(CallIssued /\ request.made /\ request.page) =>
            /\ resp_token # 0
            /\ request'.pagination_token = resp_token
            /\ request'.since_id = request.since_id]_vars
    /\ [][(CallIssued /\ request.made /\ request.failed) =>
            /\ request'.pagination_token = request.pagination_token
            /\ request'.since_id = request.since_id]_vars
    /\ [][pc[1] \notin {"recover", "rec_delete", "rec_delete_unread"} =>
            since'[1] = since[1]]_vars
    /\ [][CallIssued => request'.since_id = since[1]]_vars
    /\ [][(pc[1] = "resume" /\ resp_token = 0) => (pc'[1] = "done" /\ ~CallIssued)]_vars
    /\ [](stopReason \in {"no_data", "no_token"} => pc[1] = "done")
    /\ [][pc[1] = "done" => ~CallIssued]_vars

\* a call with the token of the page before it raised and was repeated
C26_Witness ==
    /\ request.made
    /\ request.run >= 1
    /\ request.pagination_token # 0
    /\ request.pagination_token = resp_token
    /\ request.since_id = Some(Str(InitialCursor))

\* C27: when the bearer token cannot be read (parameter missing, or the
\* lookup raises) the constructor raises, and at that point and ever after
\* the invocation has made no upstream call, no dispatch and no put or
\* delete on the checkpoint table.
C27_CredentialFailureAbortsFirst ==
    /\ [][(pc[1] = "init" /\ secret' \in {"missing", "error"}) => pc'[1] = "aborted"]_vars
    /\ [](pc[1] = "init" =>
            /\ api_calls_made = 0
            /\ fetchFailures = 0
            /\ batches_sent = 0
            /\ dispatchFailures = 0
            /\ hist = <<>>)
    /\ [][pc[1] = "init" => (store' = store /\ faults' = faults)]_vars
    /\ [](secret \in {"missing", "error"} =>
            /\ pc[1] = "aborted"
            /\ api_calls_made = 0
            /\ fetchFailures = 0
            /\ batches_sent = 0
            /\ dispatchFailures = 0
            /\ hist = <<>>)
    /\ [][(secret \in {"missing", "error"}) => (store' = store /\ faults' = faults)]_vars

\* the constructor raised on a missing parameter while the table holds a
\* cursor
C27_Witness ==
    /\ secret = "missing"
    /\ pc[1] = "aborted"
    /\ store = NewRecord(Str(InitialCursor))

\* C28: the attempt handed to handle_error for a call that raised is the
\* number of calls that raised immediately before it: 0 for the first
\* failure after a page, whatever failed before, dispatches included.
C28_AttemptCountsConsecutiveFailures ==
    [][fetchFailures' # fetchFailures => errors_encountered' - 1 = request'.run]_vars

\* fetch failures that handle_error answered with should_retry
FetchRetries == fetchFailures - (IF stopReason = "no_retry" THEN 1 ELSE 0)

\* C29: no more than 6 upstream calls of an invocation raise, whatever
\* succeeds between them: each one adds 1 to errors_encountered, the one
\* that brings it to 6 or more ends the pagination, and no more than 5 are
\* retried.
C29_AtMostSixFetchFailures ==
    /\ [](fetchFailures <= 6)
    /\ [](fetchFailures <= errors_encountered)
    /\ [][fetchFailures' # fetchFailures =>
            errors_encountered' = errors_encountered + 1]_vars
    /\ [][(fetchFailures' # fetchFailures /\ errors_encountered' >= 6) =>
            (pc'[1] = "done" /\ stopReason' = "no_retry")]_vars
    /\ [](FetchRetries <= 5)

\* six calls raised, with pages between them; the sixth ended the pagination
C29_Witness ==
    /\ fetchFailures = 6
    /\ page_count >= 1
    /\ ~request.page
    /\ request.run < 5
    /\ FetchRetries = 5
    /\ stopReason = "no_retry"

\* C30: once a response with x-rate-limit-remaining 0 has been parsed the
\* invocation makes no further call: current_status changes only when a
\* response is parsed, so should_continue_requests is False at the head of
\* the loop also after wait_if_needed has slept until the reset time.
C30_NoCallAfterExhaustion ==
    /\ [][(lastHeaders.seen /\ lastHeaders.remaining = 0) => ~CallIssued]_vars
    /\ [][current_status' # current_status => api_calls_made' # api_calls_made]_vars
    /\ []((lastHeaders.seen /\ lastHeaders.remaining = 0 /\ pc[1] = "loop") =>
            ~should_continue_requests(current_status, now))

\* the pagination ended on the rate limit check after the reset time of an
\* exhausted status had passed in wait_if_needed
C30_Witness ==
    /\ stopReason = "rate_limit"
    /\ lastHeaders.seen
    /\ lastHeaders.remaining = 0
    /\ IntTime(now) >= lastHeaders.reset
    /\ next_token # 0

\* C24: handle_checkpoint_conflict returns attempted_id when current_id is
\* None or empty; when both are integers, attempted_id if it is the greater
\* number and current_id otherwise, so also when they are equal; and
\* current_id when one of them is not an integer.
C24_ConflictKeepsNumericMaximum ==
    resolved.called =>
      /\ ~Truthy(resolved.current_id) => resolved.result = resolved.attempted_id
      /\ (/\ Truthy(resolved.current_id)
          /\ Parses(resolved.attempted_id)
          /\ Parses(resolved.current_id.v)) =>
            resolved.result =
              IF NumOf(resolved.attempted_id) > NumOf(resolved.current_id.v)
              THEN resolved.attempted_id
              ELSE resolved.current_id.v
      /\ (/\ Truthy(resolved.current_id)
          /\ ~(Parses(resolved.attempted_id) /\ Parses(resolved.current_id.v))) =>
            resolved.result = resolved.current_id.v

\* attempted '100' against current '5': the greater number is the smaller
\* string
C24_Witness ==
    /\ resolved.called
    /\ resolved.attempted_id = <<"1", "0", "0">>
    /\ resolved.current_id = Some(<<"5">>)
    /\ resolved.result = <<"1", "0", "0">>

\* C25: validate_checkpoint is false for the empty string, for a string
\* that is not an integer and for an integer <= 0, and true for an integer
\* > 0 of any number of digits.
C25_ValidIffPositiveInteger ==
    validated.called =>
      /\ validated.since_id = <<>> => ~validated.result
      /\ validated.since_id \notin PositiveCursors => ~validated.result
      /\ validated.since_id \in PositiveCursors => validated.result

\* a positive integer of 26 digits was validated
C25_Witness ==
    /\ validated.called
    /\ Len(validated.since_id) = 26
    /\ validated.result

C33_CountersFollowOutcomes ==
    /\ [][/\ tweets_processed' >= tweets_processed
          /\ api_calls_made' >= api_calls_made
          /\ errors_encountered' >= errors_encountered
          /\ batches_sent' >= batches_sent
          /\ checkpoint_updates' >= checkpoint_updates
          /\ rate_limit_waits' >= rate_limit_waits]_vars
    /\ [][(sliceLens' # sliceLens /\ sliceLens' # <<>>) =>
            IF dispatchFailures' = dispatchFailures
            THEN /\ tweets_processed' = tweets_processed + sliceLens'[Len(sliceLens')]
                 /\ batches_sent' = batches_sent + 1
                 /\ errors_encountered' = errors_encountered
            ELSE /\ tweets_processed' = tweets_processed
                 /\ batches_sent' = batches_sent
                 /\ errors_encountered' = errors_encountered + 1]_vars
    /\ [][(tweets_processed' # tweets_processed \/ batches_sent' # batches_sent) =>
            (sliceLens' # sliceLens /\ sliceLens' # <<>>)]_vars
    /\ [][(checkpoint_updates' # checkpoint_updates) <=>
            (pc[1] = "upd_cas" /\ store' = NewRecord(arg[1])
               /\ AdvanceCondition(store, arg[1]))]_vars
    /\ [][checkpoint_updates' # checkpoint_updates =>
            checkpoint_updates' = checkpoint_updates + 1]_vars
    /\ [](errors_encountered = fetchFailures + dispatchFailures)

\* a call and an invoke have raised, a slice shorter than batch_size has
\* been counted and a put has been rejected
C33_Witness ==
    /\ fetchFailures >= 1
    /\ dispatchFailures >= 1
    /\ errors_encountered = fetchFailures + dispatchFailures
    /\ batches_sent >= 1
    /\ tweets_processed < batches_sent * batch_size
    /\ checkpoint_updates = 0
    /\ hist # <<>>

(***************************************************************************)
(* Properties of execute_with_retry.                                       *)
(***************************************************************************)
RetryableError(msg) == classify_error(msg) # "non_retryable"

\* C36: execute_with_retry calls func at most MAX_RETRIES + 1 = 6 times; it
\* returns the result of the first call that succeeds; a call that fails
\* with an error that is not retryable is the last one (the only one when
\* it is the first); between two calls it sleeps the wait decided for the
\* failure of the earlier one; it raises the last failure, and does so only
\* on an error that is not retryable or on the failure of the sixth call.
C36_AtMostSixCalls ==
    /\ retrying.calls <= MAX_RETRIES + 1
    /\ retrying.outcome = "returned" =>
          /\ retrying.result = retrying.calls
          /\ Len(retrying.errors) = retrying.calls - 1
    /\ retrying.outcome # "returned" => Len(retrying.errors) = retrying.calls
    /\ \A k \in 1..Len(retrying.errors) :
          ~RetryableError(retrying.errors[k]) =>
             (k = retrying.calls /\ retrying.outcome = "raised")
    /\ retrying.outcome = "raised" =>
          \/ ~RetryableError(retrying.errors[retrying.calls])
          \/ retrying.calls = MAX_RETRIES + 1
    /\ (retrying.outcome = "" /\ retrying.errors # <<>>) => retrying.calls <= MAX_RETRIES
    /\ Len(retrying.waits) = retrying.attempt
    /\ retrying.attempt = (IF retrying.outcome = "" THEN retrying.calls
                           ELSE retrying.calls - 1)
    /\ \A k \in 1..Len(retrying.waits) :
          /\ retrying.waits[k] = retrying.decided[k]
          /\ retrying.waits[k] \in
                {handle_error(retrying.errors[k], k - 1, j).wait : j \in JitterTenths}
          /\ retrying.waits[k] > 0

\* five retryable failures, each followed by its sleep, and a sixth that is
\* raised
C36_Witness ==
    /\ retrying.outcome = "raised"
    /\ retrying.calls = MAX_RETRIES + 1
    /\ Len(retrying.waits) = MAX_RETRIES
    /\ RetryableError(retrying.errors[MAX_RETRIES + 1])

(***************************************************************************)
(* Properties of the handler of rekognition/index.py.                      *)
(***************************************************************************)
\* the moderation calls that raised
ModerationFailures == image.moderation_calls - (IF image.moderated THEN 1 ELSE 0)

Results == {"Fail", "Moderated", "Succeed"}

\* C39: each of the two service calls is made at most 5 times; one of the
\* three terminal exceptions ends the handler with 'Fail' and no further
\* call; after the k-th other failure of a call the handler sleeps
\* 0.15 * 2^k s (0.3, 0.6, 1.2, 2.4, 4.8 s), and the fifth ends it with
\* 'Fail'; the handler ends, and with 'Fail', 'Moderated' or 'Succeed'.
C39_FiveAttemptsThenFail ==
    /\ [](/\ image.moderation_calls <= 5
          /\ image.face_calls <= 5
          /\ \A k \in 1..Len(image.raised) :
                image.raised[k] \in TerminalErrors =>
                   /\ k = Len(image.raised)
                   /\ image.pc = "done"
                   /\ image.result = "Fail"
                   /\ Len(image.slept) = k - 1
                   /\ ~(image.face_calls = 0 /\ image.moderated)
          /\ \A k \in 1..Len(image.slept) :
                /\ image.raised[k] \in RetriedErrors
                /\ image.slept[k] =
                     <<30, 60, 120, 240, 480>>[IF k <= ModerationFailures THEN k
                                               ELSE k - ModerationFailures]
          /\ image.retries <= 5
          /\ image.retries = 5 => (image.pc = "done" /\ image.result = "Fail")
          /\ (image.pc # "done" /\ image.raised # <<>>) =>
                (image.retries < 5 /\ Len(image.slept) = Len(image.raised))
          /\ image.pc = "done" <=> image.result \in Results
          /\ image.pc # "done" => image.result = "")
    /\ <>(image.pc = "done" /\ image.result \in Results)

\* moderation has failed twice and answered, face detection has failed five
\* times
C39_Witness ==
    /\ image.pc = "done"
    /\ image.result = "Fail"
    /\ image.moderation_calls = 3
    /\ image.face_calls = 5
    /\ image.retries = 5
    /\ image.slept = <<30, 60, 30, 60, 120, 240, 480>>

\* C40: detect_faces is called only after detect_moderation_labels has
\* returned without a label; a response with a label ends the handler with
\* 'Moderated' and no detect_faces call; a missing image_url and a failed
\* download end it with 'Fail' before any of the two calls.
C40_FacesOnlyAfterCleanModeration ==
    /\ image.face_calls > 0 => (image.moderated /\ image.labels = 0)
    /\ image.result = "Moderated" => (image.moderated /\ image.labels >= 1)
    /\ (image.moderated /\ image.labels >= 1) =>
          (image.pc = "done" /\ image.result = "Moderated" /\ image.face_calls = 0)
    /\ image.moderation_calls > 0 => (image.has_url /\ image.downloaded)
    /\ (image.pc # "start" /\ ~(image.has_url /\ image.downloaded)) =>
          /\ image.pc = "done"
          /\ image.result = "Fail"
          /\ image.moderation_calls = 0
          /\ image.face_calls = 0

\* the third moderation call has answered with two labels
C40_Witness ==
    /\ image.result = "Moderated"
    /\ image.labels = 2
    /\ image.moderation_calls = 3
    /\ image.face_calls = 0
    /\ image.pc = "done"

(***************************************************************************)
(* Properties of the rate limit manager on malformed headers.              *)
(***************************************************************************)
Malformed == "bad" \in {observed.limit.kind, observed.remaining.kind, observed.reset.kind}

\* C35: parse_rate_limit_headers on headers of which one is not an integer
\* returns the fallback status and leaves current_status and
\* last_request_time as they were, so should_continue_requests and
\* wait_if_needed answer after it as they did before it.
C35_MalformedLeavesCurrentStatus ==
    [][(observed'.calls # observed.calls /\ Malformed') =>
          /\ observed'.returned = Fallback(observed'.at)
          /\ ~observed'.raised
          /\ current_status' = current_status
          /\ last_request_time' = last_request_time
          /\ \A t \in {now' + d : d \in Gaps} :
                /\ should_continue_requests(current_status', t)
                     = should_continue_requests(current_status, t)
                /\ \A force \in BOOLEAN :
                     wait_if_needed(current_status', last_request_time', t, force)
                       = wait_if_needed(current_status, last_request_time, t, force)]_vars

\* headers with three integers have set a status that asks to wait, headers
\* with a malformed one have then returned the fallback, and wait_if_needed
\* has slept on the status of the first
C35_Witness ==
    /\ observed.calls = 2
    /\ Malformed
    /\ observed.returned = Fallback(observed.at)
    /\ current_status.set
    /\ current_status.should_wait
    /\ current_status # observed.returned
    /\ awaited.called
    /\ awaited.at >= observed.at
    /\ awaited.status = current_status
    /\ awaited.slept > Sec(1)

\* the newest tweet of the page the last response announced with its
\* next_token and that no call has asked for
Announced == BulkPage(resp_token, 1)[1]

\* C34: when the invocation has ended, every tweet of the upstream that is
\* newer than the cursor loaded at the start and not newer than the stored
\* cursor has been handed to invoke; here for the tweet that heads the page
\* announced and never requested.
C34_NothingBehindCheckpointUnfetched ==
    (/\ pc[1] = "done"
     /\ upstream = "bulk"
     /\ resp_token # 0
     /\ request.pagination_token # resp_token
     /\ store.present) =>
        ~ /\ NumOf(Announced) > (IF since[1].some THEN NumOf(since[1].v) ELSE 0)
          /\ NumOf(Announced) <= NumOf(store.since_id)

(***************************************************************************)
(* Properties of the handler of index.py and of the table it shares.       *)
(***************************************************************************)
\* C31: whichever writer put the record (update_checkpoint_atomic of the
\* manager, the one of index.py, or none after a delete), a put of the
\* manager is applied iff there is no record or the number of the stored
\* since_id is smaller than the new one.
C31_AdvanceTrueOnEveryWritersRecord ==
    [][(pc[1] = "upd_cas" /\ pc'[1] # pc[1] /\ faults' = faults) =>
        (hist'[Len(hist')].ok <=>
            (~store.present \/ NumOf(store.since_id) < NumOf(arg[1])))]_vars

\* C37: index.handler requests the put of the checkpoint only after an
\* invoke has returned for every batch of the result; an invoke that raises
\* ends the invocation with the exception and without a put, and so does an
\* empty result, without the exception.
C37_LegacyPutAfterAllDispatches ==
    /\ \A i \in Invs :
         /\ legacy[i].pc = "update" =>
               /\ legacy[i].all_tweets # <<>>
               /\ legacy[i].offset >= Len(legacy[i].all_tweets)
               /\ legacy[i].invoked * BATCH_SIZE >= Len(legacy[i].all_tweets)
         /\ legacy[i].put # "none" =>
               legacy[i].invoked * BATCH_SIZE >= Len(legacy[i].all_tweets)
         /\ (legacy[i].pc = "done" /\ legacy[i].all_tweets = <<>>) => legacy[i].put = "none"
         /\ (legacy[i].pc = "raised" /\ legacy[i].put = "none") =>
               \/ legacy[i].since_id = NoneStr /\ legacy[i].all_tweets = <<>>
               \/ legacy[i].invoked * BATCH_SIZE < Len(legacy[i].all_tweets)

\* the second invoke of three tweets raised: one batch was dispatched, the
\* handler re-raised and the record is the one the invocation read
C37_Witness ==
    /\ legacy[2].pc = "raised"
    /\ legacy[2].invoked = 1
    /\ Len(legacy[2].all_tweets) = 3
    /\ legacy[2].put = "none"
    /\ ReadCheckpoint(store) = legacy[2].since_id
    /\ legacy[2].since_id # NoneStr

\* C38: the put of index.py is applied iff the since_id stored still equals
\* the one the invocation read, or there is still no record when it read
\* none, and is skipped without an exception otherwise; when two
\* invocations of index.handler that read the same checkpoint both come to
\* their put, with no other writer, exactly one of the puts is applied.
C38_LegacyPutIsCompareAndSwap ==
    /\ \A i \in Invs :
         /\ legacy[i].put = "applied" =>
               /\ ReadCheckpoint(legacy[i].before) = legacy[i].since_id
               /\ legacy[i].pc = "done"
         /\ legacy[i].put = "skipped" =>
               /\ ReadCheckpoint(legacy[i].before) # legacy[i].since_id
               /\ legacy[i].pc = "done"
    /\ (/\ pc[1] = "recover"
        /\ legacy[1].since_id = legacy[2].since_id
        /\ legacy[1].put \in {"applied", "skipped"}
        /\ legacy[2].put \in {"applied", "skipped"}) =>
          (legacy[1].put = "applied") # (legacy[2].put = "applied")

\* both invocations read '100'; the put of the first was applied and the
\* put of the second skipped
C38_Witness ==
    /\ pc[1] = "recover"
    /\ legacy[1].since_id = Some(Str(InitialCursor))
    /\ legacy[2].since_id = Some(Str(InitialCursor))
    /\ legacy[1].put = "applied"
    /\ legacy[2].put = "skipped"
    /\ legacy[2].before = store

=============================================================================
